---- MODULE Spec2Model ----
(***************************************************************************)
(* Model of the AceKey engine of vic/van (crates/src/acekey.rs) and of the *)
(* keystroke session that re-invokes it (crates/src/ui/update.rs,          *)
(* handle_rune; crates/src/ui/render/list.rs, assign_prefix_map), of the   *)
(* key handlers of the Model (Backspace, Enter, Space, Esc) and of the     *)
(* Segment and CommandLine of crates/src/ast.rs.                           *)
(*                                                                         *)
(* Representation.  A Rust String is a sequence of characters, a character *)
(* is a one-character TLA+ string.  A Vec index i of the source is the     *)
(* position i+1 of the sequence here.  Option<Vec<Assignment>> is a record *)
(* [some, list]: None is [some |-> FALSE, list |-> <<>>].                   *)
(***************************************************************************)
EXTENDS Integers, Sequences, FiniteSets, TLC

VARIABLES
    elements,   \* the candidate label list handed to the engine
    typed_raw,  \* Model.typed_raw: the typed buffer, grown by handle_rune
    res,        \* the engine's result for (elements, typed_raw)
    shown,      \* the engine's result of the call before the last message
    key,        \* the rune of the last message, <<>> when it was a re-render
    drive,      \* candidates for which the keystrokes so far follow drive_to_target
    model,      \* the Model m of crates/src/ui (selection session)
    before,     \* the Model before the last message
    last,       \* what the last message committed, and how
    msg,        \* the kind of the last Msg handled by Model::update
    seg,        \* a Segment under its own operations, and the log of them
    line        \* a CommandLine under its own operations

vars == <<elements, typed_raw, res, shown, key, drive, model, before, last,
          msg, seg, line>>

----------------------------------------------------------------------------
(* Bounds of the exploration *)

MaxPool == 2
MaxTyped == 3

----------------------------------------------------------------------------
(* Characters *)

LowerLetters == {"a", "b", "c"}
UpperLetters == {"A", "B"}
Digits == {"0", "1", "2", "3", "4", "5", "6", "7", "8", "9"}

\* char::is_alphanumeric, on the characters of the model
is_alphanumeric(c) == c \in LowerLetters \cup UpperLetters \cup Digits

is_ace_rune(c) == is_alphanumeric(c) \/ c = "-"

\* char::to_lowercase / to_ascii_lowercase (they agree on ASCII)
to_lowercase_char(c) ==
    CASE c = "A" -> "a"
      [] c = "B" -> "b"
      [] OTHER -> c

to_lowercase(s) == [i \in 1..Len(s) |-> to_lowercase_char(s[i])]

is_single_ace_rune(s) == Len(s) = 1 /\ is_ace_rune(s[1])

----------------------------------------------------------------------------
(* String helpers: the std methods the engine uses *)

starts_with(s, p) == Len(p) <= Len(s) /\ SubSeq(s, 1, Len(p)) = p

\* s.chars().skip(n) collected
skip(s, n) == SubSeq(s, n + 1, Len(s))

\* s.chars().nth(pos) with a 0-based pos; <<>> stands for None
nth(s, pos) == IF pos + 1 <= Len(s) THEN <<s[pos + 1]>> ELSE <<>>

\* iter.find(pred): the first character of s in the set ok, <<>> for None
find_first(s, ok) ==
    IF \E i \in 1..Len(s) : s[i] \in ok
    THEN LET i == CHOOSE k \in 1..Len(s) :
                      s[k] \in ok /\ \A j \in 1..(k - 1) : s[j] \notin ok
         IN  <<s[i]>>
    ELSE <<>>

\* iter.rev().find(pred): the last character of s in the set ok
find_last(s, ok) ==
    IF \E i \in 1..Len(s) : s[i] \in ok
    THEN LET i == CHOOSE k \in 1..Len(s) :
                      s[k] \in ok /\ \A j \in (k + 1)..Len(s) : s[j] \notin ok
         IN  <<s[i]>>
    ELSE <<>>

chars_of(s) == {s[i] : i \in 1..Len(s)}

----------------------------------------------------------------------------
(* Normalizer and Left-Unit Resolver *)

clean_string(s) == SelectSeq(s, is_ace_rune)

leftmost_unit(clean) ==
    IF starts_with(clean, <<"-", "-">>) THEN <<"-", "-">>
    ELSE IF clean = <<>> THEN <<>> ELSE <<clean[1]>>

compute_typed_left_unit(typed_lower) == leftmost_unit(typed_lower)

RECURSIVE leading_run(_, _)
\* the number of leading occurrences of first in s
leading_run(s, first) ==
    IF s # <<>> /\ s[1] = first THEN 1 + leading_run(Tail(s), first) ELSE 0

collapse_leading(match_lower, lu_lower) ==
    IF lu_lower = <<"-", "-">> \/ lu_lower = <<>> THEN match_lower
    ELSE LET first == lu_lower[1]
             count == leading_run(match_lower, first)
         IN  IF count > 1 THEN <<first>> \o skip(match_lower, count)
             ELSE match_lower

\* ElemInfo of one element (index is the 1-based position)
ElemInfo(i, e) ==
    LET c == clean_string(e)
    IN  [index |-> i, clean |-> c, lower |-> to_lowercase(c),
         lu |-> leftmost_unit(c), rune_count |-> Len(c)]

build_infos(els) ==
    LET all == [i \in 1..Len(els) |-> ElemInfo(i, els[i])]
    IN  SelectSeq(all, LAMBDA it : it.clean # <<>>)

----------------------------------------------------------------------------
(* Ordering, assignments *)

Hyphen == <<"-">>
DoubleHyphen == <<"-", "-">>

Assignment(i, p) == [index |-> i, prefix |-> p]

\* the order of the input alone: a.index.cmp(&b.index)
info_le_by_index(a, b) ==
    a.index <= b.index

\* a.rune_count.cmp(&b.rune_count).then(a.index.cmp(&b.index))
info_le(a, b) ==
    a.rune_count < b.rune_count
    \/ (a.rune_count = b.rune_count /\ a.index <= b.index)

RECURSIVE sort_infos(_)
\* Vec::sort_by with the (rune_count, index) comparator
sort_infos(list) ==
    IF list = <<>> THEN <<>>
    ELSE LET m == CHOOSE i \in 1..Len(list) :
                      \A j \in 1..Len(list) : info_le(list[i], list[j])
         IN  <<list[m]>> \o
             sort_infos(SubSeq(list, 1, m - 1) \o SubSeq(list, m + 1, Len(list)))

\* vec![None; elements_count]
no_assigned(elements_count) == [i \in 1..elements_count |-> <<>>]

RECURSIVE flatten(_)
\* assigned.into_iter().flatten().collect()
flatten(assigned) ==
    IF assigned = <<>> THEN <<>> ELSE Head(assigned) \o flatten(Tail(assigned))

\* lu_matches_typed comparing only the first rune of the two left units
lu_matches_first_rune(it, typed_left_unit) ==
    LET lu_lower == to_lowercase(it.lu)
    IN  lu_lower # <<>> /\ typed_left_unit # <<>>
        /\ lu_lower[1] = typed_left_unit[1]

\* lu_matches_typed with the marker equivalence applied in both directions:
\* a typed "--" would also match candidates anchored on "-"
lu_matches_either_marker(it, typed_left_unit) ==
    LET lu_lower == to_lowercase(it.lu)
    IN  IF typed_left_unit = Hyphen \/ typed_left_unit = DoubleHyphen
        THEN lu_lower = Hyphen \/ lu_lower = DoubleHyphen
        ELSE lu_lower = typed_left_unit

\* the candidate's left unit matches the typed left unit, a typed "-" also
\* matching "--" (the closure repeated at acekey.rs 132, 147, 237, 618)
lu_matches_typed(it, typed_left_unit) ==
    LET lu_lower == to_lowercase(it.lu)
    IN  IF typed_left_unit = Hyphen
        THEN lu_lower = Hyphen \/ lu_lower = DoubleHyphen
        ELSE lu_lower = typed_left_unit

\* the collapsed lower-case match string of a candidate
match_lower_of(it) ==
    LET lu_lower == to_lowercase(it.lu)
    IN  IF lu_lower # DoubleHyphen /\ lu_lower # <<>>
        THEN collapse_leading(it.lower, lu_lower)
        ELSE it.lower

----------------------------------------------------------------------------
(* Disambiguator Allocator: the default allocator *)

\* the prefix one candidate gets in allocate_disambiguators, given used
allocate_one(cand, used, typed_lower, typed_left_unit) ==
    LET lu_lower == to_lowercase(cand.lu)
        start_pos == Len(lu_lower)
        body == skip(cand.clean, start_pos)
        ar == find_first(body, chars_of(body) \ ({"-"} \cup used))
    IN  IF ar # <<>> THEN ar
        ELSE IF lu_lower = DoubleHyphen /\ typed_lower = Hyphen THEN Hyphen
        ELSE typed_left_unit

RECURSIVE allocate_loop(_, _, _, _, _)
allocate_loop(order, used, assigned, typed_lower, typed_left_unit) ==
    IF order = <<>> THEN assigned
    ELSE LET cand == Head(order)
             body == skip(cand.clean, Len(cand.lu))
             ar == find_first(body, chars_of(body) \ ({"-"} \cup used))
             p == allocate_one(cand, used, typed_lower, typed_left_unit)
         IN  allocate_loop(Tail(order),
                           IF ar # <<>> THEN used \cup {ar[1]} ELSE used,
                           [assigned EXCEPT ![cand.index] =
                                <<Assignment(cand.index, p)>>],
                           typed_lower, typed_left_unit)

allocate_disambiguators(candidates, typed_lower, elements_count) ==
    flatten(allocate_loop(sort_infos(candidates), {},
                          no_assigned(elements_count), typed_lower,
                          compute_typed_left_unit(typed_lower)))

----------------------------------------------------------------------------
(* Disambiguator Allocator: the filtered allocator and its three passes *)

RECURSIVE max_of(_)
max_of(S) == IF S = {} THEN 0
             ELSE LET x == CHOOSE y \in S : TRUE
                      m == max_of(S \ {x})
                  IN  IF x > m THEN x ELSE m

indices_of(list) == {list[k].index : k \in 1..Len(list)}

info_at(list, idx) == list[CHOOSE k \in 1..Len(list) : list[k].index = idx]

\* (ms_map, start_pos_map, max_len), the maps keyed by original index
build_ms_maps(order) ==
    [ms_map |-> [idx \in indices_of(order) |->
                    match_lower_of(info_at(order, idx))],
     start_pos_map |-> [idx \in indices_of(order) |->
                    Len(to_lowercase(info_at(order, idx).lu))],
     max_len |-> max_of({Len(match_lower_of(order[k])) : k \in 1..Len(order)})]

\* "prefer original-case char when possible": the character of clean at pos
\* when it is not a hyphen and lower-cases to ch, else ch
prefer_original(it, pos, ch) ==
    LET orig_ch == nth(it.clean, pos)
    IN  IF orig_ch # <<>> /\ orig_ch[1] # "-"
           /\ to_lowercase_char(orig_ch[1]) = ch
        THEN orig_ch ELSE <<ch>>

\* the character a candidate offers at pos, <<>> when it has none there or
\* the character is a hyphen, already used, or the typed left unit
eligible_char(ms, pos, used, typed_left_unit) ==
    LET ch == nth(ms, pos)
    IN  IF ch # <<>> /\ ch[1] # "-" /\ ch[1] \notin used
           /\ (typed_left_unit = <<>> \/ ch # typed_left_unit)
        THEN ch ELSE <<>>

\* One offset of offset_assignment_pass on the state st = [assigned, used,
\* remaining].  freq is computed before the inner loop; a character of
\* count 1 belongs to one remaining candidate only, so the used.insert of
\* the inner loop cannot change the test of another candidate of the same
\* offset and the inner loop is one simultaneous assignment.
offset_step(order, maps, offset, typed_left_unit, st) ==
    LET ch_of(idx) == eligible_char(maps.ms_map[idx],
                                    maps.start_pos_map[idx] + offset,
                                    st.used, typed_left_unit)
        freq(c) == Cardinality({idx \in st.remaining : ch_of(idx) = <<c>>})
        newly_assigned == {idx \in st.remaining :
                              ch_of(idx) # <<>> /\ freq(ch_of(idx)[1]) = 1}
    IN  [assigned |-> [i \in DOMAIN st.assigned |->
                          IF i \in newly_assigned
                          THEN <<Assignment(i, prefer_original(info_at(order, i),
                                    maps.start_pos_map[i] + offset, ch_of(i)[1]))>>
                          ELSE st.assigned[i]],
         used |-> st.used \cup {ch_of(idx)[1] : idx \in newly_assigned},
         remaining |-> st.remaining \ newly_assigned]

RECURSIVE offset_loop(_, _, _, _, _)
\* for offset in 0..max_len { if remaining.is_empty() { break; } ... }
offset_loop(order, maps, offset, typed_left_unit, st) ==
    IF offset >= maps.max_len \/ st.remaining = {} THEN st
    ELSE offset_loop(order, maps, offset + 1, typed_left_unit,
                     offset_step(order, maps, offset, typed_left_unit, st))

offset_assignment_pass(order, maps, typed_left_unit, st) ==
    offset_loop(order, maps, 0, typed_left_unit, st)

\* the 0-based position per_candidate_pass claims in ms, -1 when none
first_free_pos(ms, start_pos, used, typed_left_unit) ==
    LET ok == {pos \in start_pos..(Len(ms) - 1) :
                  eligible_char(ms, pos, used, typed_left_unit) # <<>>}
    IN  IF ok = {} THEN -1
        ELSE CHOOSE pos \in ok : \A q \in ok : pos <= q

RECURSIVE per_candidate_loop(_, _, _, _, _)
per_candidate_loop(order, rest, maps, typed_left_unit, st) ==
    IF rest = <<>> THEN st
    ELSE LET it == Head(rest)
             idx == it.index
             ms == maps.ms_map[idx]
             pos == first_free_pos(ms, maps.start_pos_map[idx], st.used,
                                   typed_left_unit)
         IN  IF idx \notin st.remaining \/ pos = -1
             THEN per_candidate_loop(order, Tail(rest), maps, typed_left_unit, st)
             ELSE per_candidate_loop(order, Tail(rest), maps, typed_left_unit,
                    [assigned |-> [st.assigned EXCEPT ![idx] =
                        <<Assignment(idx, prefer_original(it, pos, ms[pos + 1]))>>],
                     used |-> st.used \cup {ms[pos + 1]},
                     remaining |-> st.remaining \ {idx}])

\* remaining is only shrunk after the loop in the source, and a candidate
\* occurs once in order, so shrinking it inside the loop is the same.  The
\* pass is entered only "if !remaining.is_empty()" (acekey.rs 556).
per_candidate_pass(order, maps, typed_left_unit, st) ==
    IF st.remaining = {} THEN st
    ELSE per_candidate_loop(order, order, maps, typed_left_unit, st)

\* last_resort_prefix without its fallbacks: a candidate whose characters are
\* all hyphens or the typed left unit is left with an empty prefix
last_resort_prefix_no_fallback(it, ms, typed_left_unit) ==
    LET ch2 == find_last(ms, {r \in chars_of(ms) \ {"-"} :
                                typed_left_unit = <<>> \/ <<r>> # typed_left_unit})
    IN  IF ch2 # <<>> THEN ch2 ELSE <<>>

\* the prefix last_resort_assign gives one remaining candidate
last_resort_prefix(it, ms, typed_left_unit) ==
    LET non_hyphen == chars_of(ms) \ {"-"}
        ch == find_last(ms, non_hyphen)
    IN  IF ch # <<>>
        THEN IF typed_left_unit = <<>> \/ ch # typed_left_unit
             THEN LET pos == (CHOOSE k \in 1..Len(ms) :
                                 ms[k] = ch[1]
                                 /\ \A j \in (k + 1)..Len(ms) : ms[j] # ch[1]) - 1
                  IN  prefer_original(it, pos, ch[1])
             ELSE LET ch2 == find_last(ms,
                                {r \in non_hyphen : typed_left_unit = <<>>
                                                    \/ <<r>> # typed_left_unit})
                  IN  IF ch2 # <<>> THEN ch2 ELSE ch
        ELSE IF it.lu = DoubleHyphen THEN Hyphen ELSE it.lu

\* entered only "if !remaining.is_empty()" (acekey.rs 561)
last_resort_assign(order, maps, typed_left_unit, st) ==
    IF st.remaining = {} THEN st
    ELSE [st EXCEPT !.assigned = [i \in DOMAIN st.assigned |->
            IF i \in st.remaining
            THEN <<Assignment(i, last_resort_prefix(info_at(order, i),
                                                    maps.ms_map[i], typed_left_unit))>>
            ELSE st.assigned[i]]]

\* the filtered allocator with the per-candidate pass before the offset pass
allocate_disambiguators_filtered_per_candidate_first(candidates, typed_lower, elements_count) ==
    LET typed_left_unit == compute_typed_left_unit(typed_lower)
        order == sort_infos(candidates)
        maps == build_ms_maps(order)
        st0 == [assigned |-> no_assigned(elements_count), used |-> {},
                remaining |-> indices_of(order)]
    IN  flatten(last_resort_assign(order, maps, typed_left_unit,
                  offset_assignment_pass(order, maps, typed_left_unit,
                    per_candidate_pass(order, maps, typed_left_unit,
                                       st0))).assigned)

\* the three passes in sequence on the state [assigned, used, remaining]
allocate_disambiguators_filtered(candidates, typed_lower, elements_count) ==
    LET typed_left_unit == compute_typed_left_unit(typed_lower)
        order == sort_infos(candidates)
        maps == build_ms_maps(order)
        st0 == [assigned |-> no_assigned(elements_count), used |-> {},
                remaining |-> indices_of(order)]
    IN  flatten(last_resort_assign(order, maps, typed_left_unit,
                  per_candidate_pass(order, maps, typed_left_unit,
                    offset_assignment_pass(order, maps, typed_left_unit,
                                           st0))).assigned)

----------------------------------------------------------------------------
(* Candidate Filter and the Exact/Unique Match Resolvers *)

\* assign_initial_candidates without the normalisation of a doubled marker
assign_initial_candidates_raw_lu(els) ==
    [i \in {k \in 1..Len(els) : clean_string(els[k]) # <<>>} |->
        leftmost_unit(clean_string(els[i]))]

\* the HashMap<usize, String> of initial prefixes, as a function
assign_initial_candidates(els) ==
    [i \in {k \in 1..Len(els) : clean_string(els[k]) # <<>>} |->
        LET lu == leftmost_unit(clean_string(els[i]))
        IN  IF lu = DoubleHyphen THEN Hyphen ELSE lu]

RECURSIVE greedy_claim(_, _, _, _, _)
\* The greedy loops of attempt_base_full_key_match: each candidate of rest
\* claims its first unused character after its left unit, from clean
\* (use_lower = FALSE) or from lower without hyphens (use_lower = TRUE);
\* the candidate whose typed_left_unit + character equals target is returned.
greedy_claim(rest, used, use_lower, typed_left_unit, target) ==
    IF rest = <<>> THEN <<>>
    ELSE LET it == Head(rest)
             body == skip(IF use_lower THEN it.lower ELSE it.clean, Len(it.lu))
             c == find_first(body,
                    chars_of(body) \ (used \cup IF use_lower THEN {"-"} ELSE {}))
         IN  IF c # <<>>
             THEN IF typed_left_unit \o c = target
                  THEN <<Assignment(it.index, <<>>)>>
                  ELSE greedy_claim(Tail(rest), used \cup {c[1]}, use_lower,
                                    typed_left_unit, target)
             ELSE IF typed_left_unit = target
                  THEN <<Assignment(it.index, <<>>)>>
                  ELSE greedy_claim(Tail(rest), used, use_lower,
                                    typed_left_unit, target)

attempt_base_full_key_match(infos, typed_left_unit, typed_clean, typed_lower) ==
    IF typed_left_unit = <<>> THEN <<>>
    ELSE IF Len(typed_lower) <= Len(typed_left_unit) THEN <<>>
    ELSE
      LET extra_len == Len(typed_lower) - Len(typed_left_unit)
          extra_ch == typed_lower[Len(typed_left_unit) + 1]
          matches == SelectSeq(infos, LAMBDA it :
                        lu_matches_typed(it, typed_left_unit)
                        /\ extra_ch \in chars_of(skip(it.lower, Len(it.lu))))
          base_list == sort_infos(SelectSeq(infos, LAMBDA it :
                        lu_matches_typed(it, typed_left_unit)))
          by_orig == greedy_claim(base_list, {}, FALSE, typed_left_unit,
                                  typed_clean)
      IN  IF extra_len = 1 /\ Len(matches) = 1
          THEN <<Assignment(matches[1].index, <<>>)>>
          ELSE IF by_orig # <<>> THEN by_orig
          ELSE greedy_claim(base_list, {}, TRUE, typed_left_unit, typed_lower)

filter_candidates(infos, typed_lower, typed_left_unit) ==
    IF typed_lower = Hyphen
    THEN SelectSeq(infos, LAMBDA it :
            to_lowercase(it.lu) = Hyphen \/ to_lowercase(it.lu) = DoubleHyphen)
    ELSE SelectSeq(infos, LAMBDA it :
            to_lowercase(it.lu) = typed_left_unit
            /\ (starts_with(it.lower, typed_lower)
                \/ starts_with(match_lower_of(it), typed_lower)))

RECURSIVE no_candidates_claim(_, _, _, _)
\* the greedy loop of attempt_base_typed_selection_when_no_candidates
no_candidates_claim(rest, used, typed_left_unit, typed_lower) ==
    IF rest = <<>> THEN <<>>
    ELSE LET bc == Head(rest)
             body == skip(bc.lower, Len(typed_left_unit))
             r == find_first(body, chars_of(body) \ (used \cup {"-"}))
         IN  IF r # <<>>
             THEN IF typed_left_unit \o r = typed_lower
                  THEN <<Assignment(bc.index, <<>>)>>
                  ELSE no_candidates_claim(Tail(rest), used \cup {r[1]},
                                           typed_left_unit, typed_lower)
             ELSE no_candidates_claim(Tail(rest), used, typed_left_unit,
                                      typed_lower)

\* Option<Vec<Assignment>>: <<>> is None, otherwise the one-element list
attempt_base_typed_selection_when_no_candidates(infos, typed_lower, typed_left_unit) ==
    IF typed_left_unit = <<>> THEN <<>>
    ELSE IF Len(typed_lower) <= Len(typed_left_unit) THEN <<>>
    ELSE LET base_candidates == SelectSeq(infos, LAMBDA it :
                lu_matches_typed(it, typed_left_unit)
                /\ (starts_with(it.lower, typed_left_unit)
                    \/ starts_with(match_lower_of(it), typed_left_unit)))
         IN  no_candidates_claim(sort_infos(base_candidates), {},
                                 typed_left_unit, typed_lower)

\* Option<Assignment>: <<>> is None
exact_case_precedence(candidates, typed_clean) ==
    IF typed_clean = <<>> THEN <<>>
    ELSE LET exact == SelectSeq(candidates, LAMBDA it :
                                    starts_with(it.clean, typed_clean))
         IN  IF Len(exact) = 1 THEN <<Assignment(exact[1].index, <<>>)>>
             ELSE <<>>

filter_exact_matches(candidates, typed_lower) ==
    IF typed_lower = <<>> THEN candidates
    ELSE LET exact_matches == SelectSeq(candidates, LAMBDA it :
                it.lower = typed_lower
                \/ (match_lower_of(it) = typed_lower
                    /\ Len(it.lower) = Len(match_lower_of(it))))
             other_starts == \E k \in 1..Len(candidates) :
                candidates[k].lower # typed_lower
                /\ starts_with(candidates[k].lower, typed_lower)
         IN  IF exact_matches = <<>> THEN candidates
             ELSE IF ~other_starts THEN exact_matches
             ELSE candidates

----------------------------------------------------------------------------
(* Token Narrowing Controller and the engine entry point *)

Some(list) == [some |-> TRUE, list |-> list]
None == [some |-> FALSE, list |-> <<>>]

\* typed is a left unit followed by extra AceKey tokens (acekey.rs 591, 611)
has_extra_tokens(typed_lower, typed_left_unit) ==
    typed_left_unit # <<>> /\ starts_with(typed_lower, typed_left_unit)
    /\ Len(typed_lower) > Len(typed_left_unit)

\* acekey.rs 643-655: the assignments whose prefix is the i-th extra token
\* (i is the 0-based enumerate index), taken from the base snapshot for the
\* first token and from a fresh allocation over narrowed after it
matching_assigns(i, extra_chars, narrowed, base_assigns, typed_left_unit, elements_count) ==
    IF i >= Len(extra_chars) THEN <<>>
    ELSE SelectSeq(IF i = 0 THEN base_assigns
                   ELSE allocate_disambiguators_filtered(
                            narrowed, typed_left_unit, elements_count),
                   LAMBDA a : to_lowercase(a.prefix) = <<extra_chars[i + 1]>>)

RECURSIVE narrow_loop(_, _, _, _, _, _, _, _)
\* The loop over extra_chars and the test after it; matching is
\* matching_assigns of this iteration.  The value is [unique,
\* maybe_candidates]: unique is the index returned from inside the loop as a
\* one-element sequence, maybe_candidates a one-element sequence holding the
\* narrowed list when a token was consumed, <<>> for None.
narrow_loop(i, extra_chars, narrowed, consumed_any, matching, base_assigns, typed_left_unit, elements_count) ==
    IF i >= Len(extra_chars) \/ Len(narrowed) <= 1 \/ matching = <<>>
    THEN [unique |-> <<>>,
          maybe_candidates |-> IF consumed_any THEN <<narrowed>> ELSE <<>>]
    ELSE IF Len(matching) = 1
    THEN [unique |-> <<matching[1].index>>, maybe_candidates |-> <<>>]
    ELSE LET retained == SelectSeq(narrowed, LAMBDA it :
                                     it.index \in indices_of(matching))
         IN  narrow_loop(i + 1, extra_chars, retained, TRUE,
                         matching_assigns(i + 1, extra_chars, retained,
                             base_assigns, typed_left_unit, elements_count),
                         base_assigns, typed_left_unit, elements_count)

RECURSIVE narrowing_abandoned(_, _, _, _, _, _, _)
\* The same loop, watched for its second break: TRUE when it is left at
\* "matching_idxs.is_empty()" (acekey.rs 657-661), FALSE when it ends by a
\* unique selection, by the tokens running out or by narrowed.len() <= 1.
narrowing_abandoned(i, extra_chars, narrowed, matching, base_assigns, typed_left_unit, elements_count) ==
    IF i >= Len(extra_chars) \/ Len(narrowed) <= 1 THEN FALSE
    ELSE IF matching = <<>> THEN TRUE
    ELSE IF Len(matching) = 1 THEN FALSE
    ELSE LET retained == SelectSeq(narrowed, LAMBDA it :
                                     it.index \in indices_of(matching))
         IN  narrowing_abandoned(i + 1, extra_chars, retained,
                         matching_assigns(i + 1, extra_chars, retained,
                             base_assigns, typed_left_unit, elements_count),
                         base_assigns, typed_left_unit, elements_count)

\* acekey.rs 609-680: [unique, maybe_candidates]
token_narrowing(infos, typed_lower, typed_left_unit, elements_count) ==
    LET base_list == SelectSeq(infos, LAMBDA it :
                                  lu_matches_typed(it, typed_left_unit))
        extra_chars == skip(typed_lower, Len(typed_left_unit))
        base_assigns == allocate_disambiguators_filtered(
                            base_list, typed_left_unit, elements_count)
    IN  IF has_extra_tokens(typed_lower, typed_left_unit) /\ base_list # <<>>
        THEN narrow_loop(0, extra_chars, base_list, FALSE,
                         matching_assigns(0, extra_chars, base_list,
                             base_assigns, typed_left_unit, elements_count),
                         base_assigns, typed_left_unit, elements_count)
        ELSE [unique |-> <<>>, maybe_candidates |-> <<>>]

\* acekey.rs 706-719: steps 5 and 6 on the candidates filter_exact_matches kept
resolve_filtered(filtered, used_token_narrowing, typed_lower, typed_left_unit, elements_count) ==
    IF Len(filtered) = 1 /\ typed_lower # <<>>
    THEN <<Assignment(filtered[1].index, <<>>)>>
    ELSE IF used_token_narrowing
    THEN allocate_disambiguators_filtered(filtered, typed_left_unit,
                                          elements_count)
    ELSE allocate_disambiguators(filtered, typed_lower, elements_count)

\* resolve_candidates answering with the list of the fallback, empty or not,
\* when no candidate is left
resolve_candidates_no_failure(infos, tn, typed_clean, typed_lower, typed_left_unit, elements_count) ==
    LET used_token_narrowing == tn.maybe_candidates # <<>>
        candidates == IF used_token_narrowing THEN tn.maybe_candidates[1]
                      ELSE filter_candidates(infos, typed_lower, typed_left_unit)
        fallback == attempt_base_typed_selection_when_no_candidates(
                        infos, typed_lower, typed_left_unit)
        exact == exact_case_precedence(candidates, typed_clean)
    IN  IF tn.unique # <<>> THEN Some(<<Assignment(tn.unique[1], <<>>)>>)
        ELSE IF candidates = <<>> THEN Some(fallback)
        ELSE IF exact # <<>> THEN Some(exact)
        ELSE IF typed_lower = typed_left_unit /\ Len(candidates) > 1
        THEN Some(allocate_disambiguators_filtered(candidates, typed_lower,
                                                   elements_count))
        ELSE Some(resolve_filtered(filter_exact_matches(candidates, typed_lower),
                                   used_token_narrowing, typed_lower,
                                   typed_left_unit, elements_count))

\* acekey.rs 663-719: the unique selection of token narrowing, then the steps
\* after candidate selection; tn is the value of token_narrowing
resolve_candidates(infos, tn, typed_clean, typed_lower, typed_left_unit, elements_count) ==
    LET used_token_narrowing == tn.maybe_candidates # <<>>
        candidates == IF used_token_narrowing THEN tn.maybe_candidates[1]
                      ELSE filter_candidates(infos, typed_lower, typed_left_unit)
        fallback == attempt_base_typed_selection_when_no_candidates(
                        infos, typed_lower, typed_left_unit)
        exact == exact_case_precedence(candidates, typed_clean)
    IN  IF tn.unique # <<>> THEN Some(<<Assignment(tn.unique[1], <<>>)>>)
        ELSE IF candidates = <<>>
        THEN IF fallback # <<>> THEN Some(fallback) ELSE None
        ELSE IF exact # <<>> THEN Some(exact)
        ELSE IF typed_lower = typed_left_unit /\ Len(candidates) > 1
        THEN Some(allocate_disambiguators_filtered(candidates, typed_lower,
                                                   elements_count))
        ELSE Some(resolve_filtered(filter_exact_matches(candidates, typed_lower),
                                   used_token_narrowing, typed_lower,
                                   typed_left_unit, elements_count))

\* acekey.rs 686-719 with maybe_candidates = None: the standard path, on the
\* candidates filter_candidates selects from the whole pool
candidate_filter_path(infos, typed_clean, typed_lower, typed_left_unit, elements_count) ==
    resolve_candidates(infos, [unique |-> <<>>, maybe_candidates |-> <<>>],
                       typed_clean, typed_lower, typed_left_unit, elements_count)

\* acekey.rs 597-602: the index the whole-label fast path returns, <<>> when
\* it does not return.  The source returns the value of
\* infos.iter().position(..), the position in infos, as the Assignment index;
\* infos lacks the elements whose clean form is empty.
whole_label_match(infos, typed_clean, typed_lower, typed_left_unit) ==
    LET hits == {k \in 1..Len(infos) : infos[k].clean = typed_clean}
        sharing == Len(SelectSeq(infos, LAMBDA it :
                          to_lowercase(it.lu) = typed_left_unit))
    IN  IF hits # {} /\ ~(typed_lower = typed_left_unit /\ sharing > 1)
        THEN <<CHOOSE k \in hits : \A j \in hits : k <= j>>
        ELSE <<>>

\* assign_ace_keys for a typed buffer with a non-empty normalized form
assign_typed(els, typed) ==
    LET infos == build_infos(els)
        typed_clean == clean_string(typed)
        typed_lower == to_lowercase(typed_clean)
        typed_left_unit == compute_typed_left_unit(typed_lower)
        quick == IF ~has_extra_tokens(typed_lower, typed_left_unit)
                 THEN attempt_base_full_key_match(infos, typed_left_unit,
                                                  typed_clean, typed_lower)
                 ELSE <<>>
        whole == whole_label_match(infos, typed_clean, typed_lower,
                                   typed_left_unit)
        exact == exact_case_precedence(infos, typed_clean)
    IN  IF quick # <<>> THEN Some(quick)
        ELSE IF whole # <<>> THEN Some(<<Assignment(whole[1], <<>>)>>)
        ELSE IF exact # <<>> THEN Some(exact)
        ELSE resolve_candidates(infos,
                 token_narrowing(infos, typed_lower, typed_left_unit, Len(els)),
                 typed_clean, typed_lower, typed_left_unit, Len(els))

RECURSIVE narrow_rounds(_, _, _, _, _, _, _)
\* the candidate lists handed to allocate_disambiguators_filtered inside the
\* narrowing loop (acekey.rs 646): narrowed, at every iteration after the
\* first that the loop enters
narrow_rounds(i, extra_chars, narrowed, matching, base_assigns, typed_left_unit, elements_count) ==
    IF i >= Len(extra_chars) \/ Len(narrowed) <= 1 THEN {}
    ELSE (IF i > 0 THEN {narrowed} ELSE {}) \cup
         IF matching = <<>> \/ Len(matching) = 1 THEN {}
         ELSE LET retained == SelectSeq(narrowed, LAMBDA it :
                                          it.index \in indices_of(matching))
              IN  narrow_rounds(i + 1, extra_chars, retained,
                      matching_assigns(i + 1, extra_chars, retained,
                          base_assigns, typed_left_unit, elements_count),
                      base_assigns, typed_left_unit, elements_count)

\* the candidate lists handed to an allocator by the Token Narrowing
\* Controller: the snapshot (acekey.rs 636) and the lists of the loop
narrowing_rounds(infos, typed_lower, typed_left_unit, elements_count) ==
    LET base_list == SelectSeq(infos, LAMBDA it :
                                  lu_matches_typed(it, typed_left_unit))
        extra_chars == skip(typed_lower, Len(typed_left_unit))
        base_assigns == allocate_disambiguators_filtered(
                            base_list, typed_left_unit, elements_count)
    IN  IF has_extra_tokens(typed_lower, typed_left_unit) /\ base_list # <<>>
        THEN {base_list} \cup
             narrow_rounds(0, extra_chars, base_list,
                           matching_assigns(0, extra_chars, base_list,
                               base_assigns, typed_left_unit, elements_count),
                           base_assigns, typed_left_unit, elements_count)
        ELSE {}

\* the candidate list handed to an allocator by steps 4 and 6
\* (acekey.rs 701-717), as a set of at most one list
resolve_rounds(infos, tn, typed_clean, typed_lower, typed_left_unit) ==
    LET candidates == IF tn.maybe_candidates # <<>> THEN tn.maybe_candidates[1]
                      ELSE filter_candidates(infos, typed_lower, typed_left_unit)
        filtered == filter_exact_matches(candidates, typed_lower)
    IN  IF tn.unique # <<>> \/ candidates = <<>>
           \/ exact_case_precedence(candidates, typed_clean) # <<>>
        THEN {}
        ELSE IF typed_lower = typed_left_unit /\ Len(candidates) > 1
        THEN {candidates}
        ELSE IF Len(filtered) = 1 /\ typed_lower # <<>> THEN {}
        ELSE {filtered}

\* every candidate list on which allocate_disambiguators or
\* allocate_disambiguators_filtered is called during assign_typed(els, typed)
allocation_rounds(els, typed) ==
    LET infos == build_infos(els)
        typed_clean == clean_string(typed)
        typed_lower == to_lowercase(typed_clean)
        typed_left_unit == compute_typed_left_unit(typed_lower)
    IN  IF typed_lower = <<>>
           \/ whole_label_match(infos, typed_clean, typed_lower,
                                typed_left_unit) # <<>>
           \/ exact_case_precedence(infos, typed_clean) # <<>>
        THEN {}
        ELSE narrowing_rounds(infos, typed_lower, typed_left_unit, Len(els))
             \cup resolve_rounds(infos,
                      token_narrowing(infos, typed_lower, typed_left_unit, Len(els)),
                      typed_clean, typed_lower, typed_left_unit)

\* every order in which a HashMap of these entries can be iterated
iteration_orders(map) ==
    LET n == Cardinality(DOMAIN map)
        keys_in_order == {f \in [1..n -> DOMAIN map] :
                             \A i, j \in 1..n : i # j => f[i] # f[j]}
    IN  {[k \in 1..n |-> Assignment(f[k], map[f[k]])] : f \in keys_in_order}

\* The values one call of assign_ace_keys can return.  With nothing typed
\* the list is pushed in the iteration order of a std HashMap, which is not
\* specified and differs between two maps of the same content (RandomState).
assign_ace_keys(els, typed) ==
    IF to_lowercase(clean_string(typed)) = <<>>
    THEN {Some(list) : list \in iteration_orders(assign_initial_candidates(els))}
    ELSE {assign_typed(els, typed)}

----------------------------------------------------------------------------
(* The update layer (crates/src/ui): strings, items and the AST            *)

\* char::is_ascii_digit / is_ascii_alphabetic, on the characters of the model
is_ascii_digit(c) == c \in Digits

is_ascii_alphabetic(c) == c \in LowerLetters \cup UpperLetters

\* typed_raw.chars().all(|c| c.is_ascii_digit()) && !typed_raw.is_empty()
all_digits(s) == s # <<>> /\ \A i \in 1..Len(s) : is_ascii_digit(s[i])

\* the byte of a character, for the Ord of String
byte_of(c) ==
    CASE c = " " -> 32 [] c = "," -> 44 [] c = "-" -> 45
      [] c = "0" -> 48 [] c = "1" -> 49 [] c = "2" -> 50 [] c = ":" -> 58
      [] c = "A" -> 65 [] c = "B" -> 66 [] c = "_" -> 95
      [] c = "a" -> 97 [] c = "b" -> 98 [] c = "c" -> 99

RECURSIVE str_le(_, _)
\* a <= b in the lexicographic order of String
str_le(a, b) ==
    IF a = <<>> THEN TRUE
    ELSE IF b = <<>> THEN FALSE
    ELSE IF a[1] = b[1] THEN str_le(Tail(a), Tail(b))
    ELSE byte_of(a[1]) < byte_of(b[1])

DecimalDigits == <<"0", "1", "2", "3", "4", "5", "6", "7", "8", "9">>

RECURSIVE to_string(_)
\* usize::to_string
to_string(n) ==
    IF n < 10 THEN <<DecimalDigits[n + 1]>>
    ELSE to_string(n \div 10) \o <<DecimalDigits[(n % 10) + 1]>>

\* FlagDef, CommandDef and ChooseItem; an Option is <<>> or a one-element
\* sequence; the descriptive texts (usage, short) are left out
FlagDef(longhand, shorthand, requires_value) ==
    [longhand |-> longhand, shorthand |-> shorthand,
     requires_value |-> requires_value]

CommandDef(name, aliases, flags, subcommands) ==
    [name |-> name, aliases |-> aliases, flags |-> flags,
     subcommands |-> subcommands]

ChooseItem(kind, label, forms, flag_def, cmd_def, depth) ==
    [kind |-> kind, label |-> label, forms |-> forms, flag_def |-> flag_def,
     cmd_def |-> cmd_def, depth |-> depth]

\* a.label.len().cmp(&b.label.len()).then(a.label.cmp(&b.label)), strictly
item_lt(a, b) ==
    Len(a.label) < Len(b.label)
    \/ (Len(a.label) = Len(b.label) /\ a.label # b.label
        /\ str_le(a.label, b.label))

RECURSIVE sort_by_label(_)
\* the stable sort_by of sort_items: the first of the least items leads
sort_by_label(list) ==
    IF list = <<>> THEN <<>>
    ELSE LET least == {i \in 1..Len(list) :
                          \A j \in 1..Len(list) : ~item_lt(list[j], list[i])}
             f == CHOOSE i \in least : \A j \in least : i <= j
         IN  <<list[f]>> \o
             sort_by_label(SubSeq(list, 1, f - 1) \o SubSeq(list, f + 1, Len(list)))

sort_items(items) ==
    sort_by_label(SelectSeq(items, LAMBDA it : it.kind = "flag"))
    \o sort_by_label(SelectSeq(items, LAMBDA it : it.kind = "cmd"))

\* Segment::default()
EmptySegment == [root |-> <<>>, stack |-> <<>>, history |-> <<>>]

CommandNode(name) == [name |-> name, flags |-> <<>>, positionals |-> <<>>]

\* Segment::new_empty
new_empty(root) ==
    [root |-> root, stack |-> <<CommandNode(root)>>, history |-> <<>>]

\* Segment::push_subcommand; depths are the 0-based depths of the source
push_subcommand(ast, name) ==
    [ast EXCEPT !.stack = Append(@, CommandNode(name)),
                !.history = Append(@, [kind |-> "subcmd", depth |-> Len(ast.stack)])]

\* Segment::add_flag_to_depth
add_flag_to_depth(ast, depth, form, value) ==
    IF depth >= Len(ast.stack) THEN ast
    ELSE [ast EXCEPT !.stack[depth + 1].flags =
                         Append(@, [form |-> form, value |-> value]),
                     !.history = Append(@, [kind |-> "flag", depth |-> depth])]

\* the flags of a node without the last instance of form (rposition, remove)
remove_last_form(flags, form) ==
    LET pos == CHOOSE p \in 1..Len(flags) :
                   flags[p].form = form
                   /\ \A q \in (p + 1)..Len(flags) : flags[q].form # form
    IN  SubSeq(flags, 1, pos - 1) \o SubSeq(flags, pos + 1, Len(flags))

\* Segment::remove_flag_from_depth: [removed, ast]
remove_flag_from_depth(ast, form, depth) ==
    IF depth >= Len(ast.stack) THEN [removed |-> FALSE, ast |-> ast]
    ELSE IF \E p \in 1..Len(ast.stack[depth + 1].flags) :
                ast.stack[depth + 1].flags[p].form = form
    THEN [removed |-> TRUE,
          ast |-> [ast EXCEPT !.stack[depth + 1].flags =
                                  remove_last_form(@, form)]]
    ELSE [removed |-> FALSE, ast |-> ast]

\* Vec::pop: the vector without its last element, if it has one
pop_back(v) == IF v = <<>> THEN v ELSE SubSeq(v, 1, Len(v) - 1)

\* Segment::pop
pop(ast) ==
    IF Len(ast.stack) <= 1 THEN ast ELSE [ast EXCEPT !.stack = pop_back(@)]

\* Segment::add_positional
add_positional(ast, val) ==
    IF ast.stack = <<>> THEN ast
    ELSE [ast EXCEPT !.stack[Len(ast.stack)].positionals = Append(@, val),
                     !.history = Append(@, [kind |-> "pos",
                                            depth |-> Len(ast.stack) - 1])]

\* Segment::remove_last when history is empty: the last flag of the top
\* node, else its last positional, else the top node itself
remove_last_untracked(ast) ==
    IF ast.stack = <<>> THEN ast
    ELSE IF ast.stack[Len(ast.stack)].flags # <<>>
    THEN [ast EXCEPT !.stack[Len(ast.stack)].flags = pop_back(@)]
    ELSE IF ast.stack[Len(ast.stack)].positionals # <<>>
    THEN [ast EXCEPT !.stack[Len(ast.stack)].positionals = pop_back(@)]
    ELSE pop(ast)

\* undo_op that takes a flag or a positional from the top node
undo_op_at_top(ast, op) ==
    IF op.kind = "flag"
    THEN [ast EXCEPT !.stack[Len(ast.stack)].flags = pop_back(@)]
    ELSE IF op.kind = "pos"
    THEN [ast EXCEPT !.stack[Len(ast.stack)].positionals = pop_back(@)]
    ELSE IF op.kind = "subcmd" THEN pop(ast)
    ELSE ast

\* the match on op.kind of Segment::remove_last; ast has op popped already
undo_op(ast, op) ==
    IF op.kind = "flag"
    THEN IF op.depth < Len(ast.stack)
         THEN [ast EXCEPT !.stack[op.depth + 1].flags = pop_back(@)]
         ELSE ast
    ELSE IF op.kind = "pos"
    THEN IF op.depth < Len(ast.stack)
         THEN [ast EXCEPT !.stack[op.depth + 1].positionals = pop_back(@)]
         ELSE ast
    ELSE IF op.kind = "subcmd" THEN pop(ast)
    ELSE ast

\* Segment::remove_last
remove_last(ast) ==
    IF ast.history = <<>> THEN remove_last_untracked(ast)
    ELSE undo_op([ast EXCEPT !.history = pop_back(@)],
                 ast.history[Len(ast.history)])

RECURSIVE flag_parts(_)
\* the words of a node's flags: the form, then the value if there is one
flag_parts(flags) ==
    IF flags = <<>> THEN <<>>
    ELSE <<Head(flags).form>>
         \o (IF Head(flags).value # <<>> THEN <<Head(flags).value>> ELSE <<>>)
         \o flag_parts(Tail(flags))

\* append_node of Segment::render_preview
append_node(node, include_name) ==
    (IF include_name THEN <<node.name>> ELSE <<>>)
    \o flag_parts(node.flags) \o node.positionals

RECURSIVE node_parts(_, _)
\* the words of stack[i..]
node_parts(stack, i) ==
    IF i > Len(stack) THEN <<>>
    ELSE append_node(stack[i], i > 1) \o node_parts(stack, i + 1)

RECURSIVE join_words(_)
\* parts.join(" ")
join_words(parts) ==
    IF parts = <<>> THEN <<>>
    ELSE IF Len(parts) = 1 THEN parts[1]
    ELSE parts[1] \o <<" ">> \o join_words(Tail(parts))

\* Segment::render_preview
render_preview(ast) == join_words(<<ast.root>> \o node_parts(ast.stack, 1))

\* CommandLine::new
new_line == [segments |-> <<new_empty(<<>>)>>, focused_segment_idx |-> 0]

\* CommandLine::focused_segment
focused_segment(cl) == cl.segments[cl.focused_segment_idx + 1]

\* CommandLine::add_segment
add_segment(cl) ==
    [segments |-> Append(cl.segments, new_empty(<<>>)),
     focused_segment_idx |-> Len(cl.segments)]

\* remove_focused_segment that leaves the focus index alone
remove_focused_segment_keep_idx(cl) ==
    IF Len(cl.segments) > 1 /\ focused_segment(cl).root = <<>>
    THEN [cl EXCEPT !.segments =
              SubSeq(cl.segments, 1, cl.focused_segment_idx)
              \o SubSeq(cl.segments, cl.focused_segment_idx + 2,
                        Len(cl.segments))]
    ELSE cl

\* CommandLine::remove_focused_segment
remove_focused_segment(cl) ==
    IF Len(cl.segments) > 1 /\ focused_segment(cl).root = <<>>
    THEN [segments |->
              SubSeq(cl.segments, 1, cl.focused_segment_idx)
              \o SubSeq(cl.segments, cl.focused_segment_idx + 2,
                        Len(cl.segments)),
          focused_segment_idx |->
              IF cl.focused_segment_idx > 0 THEN cl.focused_segment_idx - 1
              ELSE cl.focused_segment_idx]
    ELSE cl

\* CommandLine::focus_next
focus_next(cl) ==
    IF cl.focused_segment_idx + 1 < Len(cl.segments)
    THEN [cl EXCEPT !.focused_segment_idx = @ + 1] ELSE cl

\* CommandLine::focus_prev
focus_prev(cl) ==
    IF cl.focused_segment_idx > 0
    THEN [cl EXCEPT !.focused_segment_idx = @ - 1] ELSE cl

\* no Segment and no CommandLine are under operation
NoSegment == [ast |-> EmptySegment, log |-> <<>>, undone |-> <<>>]
NoLine == [cl |-> new_line, before |-> new_line, op |-> "none"]

----------------------------------------------------------------------------
(* The update layer: the Model and the functions handle_rune calls         *)

\* Model::default(); numeric_baseline is an Option of a list of item
\* positions, held 1-based here (the source's orig_idx + 1); pagination and
\* the viewport are left out
DefaultModel ==
    [items |-> <<>>, typed |-> <<>>, typed_raw |-> <<>>, ast |-> EmptySegment,
     current |-> <<>>, in_value_mode |-> FALSE, pending_flag |-> <<>>,
     pending_form |-> <<>>, pending_pos |-> FALSE, pending_depth |-> 0,
     pending_value |-> <<>>, err |-> <<>>, exit_preview |-> <<>>,
     def_cache |-> <<>>, numeric_baseline |-> <<>>]

initial_model(entries) ==
    [DefaultModel EXCEPT !.items = sort_items(
        [k \in 1..Len(entries) |->
            ChooseItem("cmd", entries[k], <<entries[k]>>, <<>>, <<>>, 0)])]

\* HashMap::insert on def_cache
cache_insert(cache, def) ==
    [n \in DOMAIN cache \cup {def.name} |->
        IF n = def.name THEN def ELSE cache[n]]

\* iter().find(|sc| sc.name == name || sc.aliases.iter().any(|a| a == name))
find_subcommand(cur, name) ==
    LET hits == {k \in 1..Len(cur.subcommands) :
                    \/ cur.subcommands[k].name = name
                    \/ \E a \in 1..Len(cur.subcommands[k].aliases) :
                          cur.subcommands[k].aliases[a] = name}
    IN  IF hits = {} THEN <<>>
        ELSE <<cur.subcommands[CHOOSE k \in hits : \A j \in hits : k <= j]>>

RECURSIVE find_subdef_loop(_, _, _, _)
find_subdef_loop(mm, cur, i, depth) ==
    IF i > depth THEN <<cur>>
    ELSE LET found == find_subcommand(cur, mm.ast.stack[i + 1].name)
         IN  IF found = <<>> THEN <<>>
             ELSE find_subdef_loop(mm, found[1], i + 1, depth)

find_subdef_from_root(mm, cur, depth) == find_subdef_loop(mm, cur, 1, depth)

get_def_for_depth(mm, depth) ==
    IF depth >= Len(mm.ast.stack) THEN <<>>
    ELSE LET root_name == mm.ast.stack[1].name
         IN  IF root_name = <<>> THEN <<>>
             ELSE IF root_name \in DOMAIN mm.def_cache
             THEN IF depth = 0 THEN <<mm.def_cache[root_name]>>
                  ELSE find_subdef_from_root(mm, mm.def_cache[root_name], depth)
             ELSE IF mm.current # <<>> /\ depth = Len(mm.ast.stack) - 1
             THEN mm.current
             ELSE <<>>

\* the forms of a flag: "--longhand" then "-shorthand"
flag_forms(f) ==
    (IF f.longhand # <<>> THEN <<DoubleHyphen \o f.longhand>> ELSE <<>>)
    \o (IF f.shorthand # <<>> THEN <<Hyphen \o f.shorthand>> ELSE <<>>)

RECURSIVE join(_, _)
\* label_parts.join(sep)
join(parts, sep) ==
    IF parts = <<>> THEN <<>>
    ELSE IF Len(parts) = 1 THEN parts[1]
    ELSE parts[1] \o sep \o join(Tail(parts), sep)

\* the flag item of collect_flag_items for flag f of def at depth d
flag_item(def, f, d, top_depth) ==
    LET label == join(flag_forms(f), <<",", " ">>)
    IN  ChooseItem("flag",
                   IF d < top_depth THEN def.name \o <<":", " ">> \o label
                   ELSE label,
                   flag_forms(f), <<f>>, <<>>, d)

RECURSIVE flag_items_from(_, _, _)
\* for d in 0..=top_depth
flag_items_from(mm, d, top_depth) ==
    IF d > top_depth THEN <<>>
    ELSE LET def == get_def_for_depth(mm, d)
         IN  (IF def = <<>> THEN <<>>
              ELSE [k \in 1..Len(def[1].flags) |->
                       flag_item(def[1], def[1].flags[k], d, top_depth)])
             \o flag_items_from(mm, d + 1, top_depth)

collect_flag_items(mm, top_depth) == flag_items_from(mm, 0, top_depth)

collect_subcommand_items(cmd, top_depth) ==
    [k \in 1..Len(cmd.subcommands) |->
        LET sc == cmd.subcommands[k]
        IN  ChooseItem("cmd", sc.name,
                       <<sc.name>> \o SelectSeq(sc.aliases, LAMBDA a : a # <<>>),
                       <<>>, <<sc>>, top_depth)]

build_items_from_command(mm, cmd) ==
    IF cmd.name = <<>> THEN [mm EXCEPT !.items = <<>>]
    ELSE LET top_depth == IF mm.ast.stack = <<>> THEN 0
                          ELSE Len(mm.ast.stack) - 1
         IN  [mm EXCEPT !.items = sort_items(
                 collect_flag_items(mm, top_depth)
                 \o collect_subcommand_items(cmd, top_depth))]

\* clear_typed that forgets the raw buffer
clear_typed_lowered_only(mm) == [mm EXCEPT !.typed = <<>>]

clear_typed(mm) == [mm EXCEPT !.typed = <<>>, !.typed_raw = <<>>]

RECURSIVE all_forms(_)
\* items.iter().flat_map(|it| it.forms.iter().cloned()).collect()
all_forms(items) ==
    IF items = <<>> THEN <<>> ELSE Head(items).forms \o all_forms(Tail(items))

has_form(it, f) == \E k \in 1..Len(it.forms) : it.forms[k] = f

\* form_map.get(f): collecting into the HashMap keeps, for a form that
\* several items have, the item inserted last; <<>> is None
form_map_get(items, f) ==
    LET owners == {i \in 1..Len(items) : has_form(items[i], f)}
    IN  IF owners = {} THEN <<>>
        ELSE <<CHOOSE i \in owners : \A j \in owners : j <= i>>

\* the forms of the assignments of the engine's answer asg; without an
\* answer, every form when nothing is typed and none otherwise
answered_forms(forms, asg, typed) ==
    IF asg.some THEN {forms[asg.list[k].index] : k \in 1..Len(asg.list)}
    ELSE IF typed = <<>> THEN {forms[k] : k \in 1..Len(forms)}
    ELSE {}

\* The forms a call of the engine makes visible.  Only the set of indices of
\* the result is used; with nothing typed it is the key set of the initial
\* map, whatever the order in which the map is iterated.
visible_forms(forms, raw, typed) ==
    IF to_lowercase(clean_string(raw)) = <<>>
    THEN {forms[i] : i \in DOMAIN assign_initial_candidates(forms)}
    ELSE answered_forms(forms, assign_typed(forms, raw), typed)

\* render_visible_items_alpha, as the positions of the visible items
visible_alpha(mm) ==
    LET vf == visible_forms(all_forms(mm.items), mm.typed_raw, mm.typed)
    IN  SelectSeq([i \in 1..Len(mm.items) |-> i],
                  LAMBDA i : \E f \in vf : has_form(mm.items[i], f))

numeric_matches_exact(nb, raw) ==
    SelectSeq(nb, LAMBDA p : to_string(p) = raw)

\* the entries of the baseline whose number starts with the typed digits
numeric_matches(nb, raw) ==
    SelectSeq(nb, LAMBDA p : starts_with(to_string(p), raw))

\* render_visible_items_numeric, as positions; items.get drops a position
\* that is out of range
visible_numeric(nb, mm) ==
    SelectSeq(IF all_digits(mm.typed_raw)
              THEN numeric_matches(nb, mm.typed_raw) ELSE nb,
              LAMBDA p : p <= Len(mm.items))

\* render_visible_items: the positions in items of the items it returns
render_visible_items(mm) ==
    IF mm.numeric_baseline # <<>>
    THEN visible_numeric(mm.numeric_baseline[1], mm)
    ELSE visible_alpha(mm)

\* render_default_content without a baseline: the gutter of the entry at the
\* 0-based index idx of the visible list shows format_num_str(idx + 1)
gutter_number(idx) == to_string(idx + 1)

\* items.iter().position(|it| it.label == vis.label && it.forms == vis.forms)
position_of(items, vis) ==
    CHOOSE i \in 1..Len(items) :
        /\ items[i].label = vis.label /\ items[i].forms = vis.forms
        /\ \A j \in 1..(i - 1) :
              ~(items[j].label = vis.label /\ items[j].forms = vis.forms)

capture_numeric_baseline(mm, r) ==
    LET visible_snapshot == render_visible_items(mm)
        baseline_indices ==
            [k \in 1..Len(visible_snapshot) |->
                position_of(mm.items, mm.items[visible_snapshot[k]])]
    IN  [mm EXCEPT !.numeric_baseline =
                       <<IF baseline_indices = <<>>
                         THEN [i \in 1..Len(mm.items) |-> i]
                         ELSE baseline_indices>>,
                   !.typed_raw = <<r>>,
                   !.typed = <<to_lowercase_char(r)>>]

simulate_alpha_treatment(mm, r, was_numeric) ==
    IF ~(is_ascii_digit(r) /\ ~was_numeric) THEN FALSE
    ELSE LET asg == assign_typed(all_forms(mm.items), Append(mm.typed_raw, r))
         IN  \/ (asg.some /\ asg.list # <<>>)
             \/ /\ Len(mm.items) = 1
                /\ \E k \in 1..Len(mm.items[1].forms) :
                      r \in chars_of(mm.items[1].forms[k])

update_typed_keep_baseline(mm, r, was_numeric) ==
    IF is_ascii_alphabetic(r) /\ all_digits(mm.typed_raw)
    THEN [mm EXCEPT !.typed_raw = <<r>>, !.typed = <<to_lowercase_char(r)>>]
    ELSE [mm EXCEPT !.typed_raw = Append(@, r),
                    !.typed = Append(@, to_lowercase_char(r))]

update_typed_for_rune(mm, r, was_numeric) ==
    IF is_ascii_digit(r) /\ was_numeric
    THEN [mm EXCEPT !.typed_raw = Append(@, r),
                    !.typed = Append(@, to_lowercase_char(r))]
    ELSE IF is_ascii_alphabetic(r) /\ all_digits(mm.typed_raw)
    THEN [mm EXCEPT !.numeric_baseline = <<>>,
                    !.typed_raw = <<r>>,
                    !.typed = <<to_lowercase_char(r)>>]
    ELSE [mm EXCEPT !.typed_raw = Append(@, r),
                    !.typed = Append(@, to_lowercase_char(r))]

----------------------------------------------------------------------------
(* The update layer: committing a choice, and handle_rune                  *)

\* what carapace::export answers for a command that can be loaded: the
\* definition of that command.  Every command of the model has the same
\* flags and subcommands; the subcommand "b" has a flag that its parent has
\* too, the subcommand "ab" has the alias "a".
export_def(name) ==
    CommandDef(name, <<>>,
        << FlagDef(<<"a", "b">>, <<"a">>, FALSE),
           FlagDef(<<"b">>, <<>>, TRUE),
           FlagDef(<<>>, <<"c">>, FALSE) >>,
        << CommandDef(<<"b">>, <<>>, <<FlagDef(<<>>, <<"a">>, FALSE)>>, <<>>),
           CommandDef(<<"a", "b">>, << <<"a">> >>, <<>>, <<>>) >>)

\* the Err(e) of carapace::export, as the text put in Model.err
ExportError == <<"e">>

\* the outcomes of one call of carapace::export
Loads == {"ok", "err"}

\* the commands carapace has a definition for; the export of any other name
\* fails
Exportable == { <<"b">>, <<"b", "-", "a">> }

\* carapace::export(name) answers Ok(def) when load is "ok" and the command
\* is known
export_ok(name, load) == load = "ok" /\ name \in Exportable

apply_loaded_command(mm, def) ==
    LET cached == [mm EXCEPT
            !.def_cache = cache_insert(@, def),
            !.ast = IF mm.ast.stack = <<>> THEN new_empty(def.name)
                    ELSE [mm.ast EXCEPT !.root = def.name,
                                        !.stack[1].name = def.name],
            !.current = <<def>>]
    IN  clear_typed(build_items_from_command(cached, def))

\* cmd_name: the name of the item's definition, else the chosen form
cmd_name_of(it, chosen_form) ==
    IF it.cmd_def # <<>> THEN it.cmd_def[1].name ELSE chosen_form

\* the part of handle_command_choice after push_subcommand
enter_subcommand(pushed, it, chosen_form, load) ==
    IF it.cmd_def # <<>>
    THEN clear_typed(build_items_from_command(
             [pushed EXCEPT !.current = it.cmd_def], it.cmd_def[1]))
    ELSE IF export_ok(chosen_form, load)
    THEN clear_typed(build_items_from_command(
             [pushed EXCEPT !.def_cache = cache_insert(@, export_def(chosen_form)),
                            !.current = <<export_def(chosen_form)>>],
             export_def(chosen_form)))
    ELSE [pushed EXCEPT !.err = ExportError]

\* handle_command_choice pushing the subcommand before the load of a root
\* command that fails
handle_command_choice_push_first(mm, it, chosen_form, load) ==
    IF mm.current = <<>> /\ mm.ast.root = <<>>
       /\ export_ok(cmd_name_of(it, chosen_form), load)
    THEN apply_loaded_command(mm, export_def(cmd_name_of(it, chosen_form)))
    ELSE enter_subcommand(
             [mm EXCEPT !.ast = push_subcommand(@, cmd_name_of(it, chosen_form))],
             it, chosen_form, load)

\* handle_command_choice; it returns true on every path
handle_command_choice(mm, it, chosen_form, load) ==
    IF mm.current = <<>> /\ mm.ast.root = <<>>
    THEN IF export_ok(cmd_name_of(it, chosen_form), load)
         THEN apply_loaded_command(mm, export_def(cmd_name_of(it, chosen_form)))
         ELSE [mm EXCEPT !.err = ExportError]
    ELSE enter_subcommand(
             [mm EXCEPT !.ast = push_subcommand(@, cmd_name_of(it, chosen_form))],
             it, chosen_form, load)

\* the part of handle_flag_choice after remove_flag_from_depth; rm is its
\* result
flag_after_remove(mm, rm, fd, chosen_form, depth) ==
    IF rm.removed THEN clear_typed([mm EXCEPT !.ast = rm.ast])
    ELSE IF fd.requires_value
    THEN clear_typed([mm EXCEPT !.in_value_mode = TRUE,
                                !.pending_flag = <<fd>>,
                                !.pending_form = chosen_form,
                                !.pending_depth = depth])
    ELSE clear_typed([mm EXCEPT
             !.ast = add_flag_to_depth(@, depth, chosen_form, <<>>)])

\* handle_flag_choice; it returns true on every path
handle_flag_choice(mm, fd, chosen_form, depth) ==
    flag_after_remove(mm, remove_flag_from_depth(mm.ast, chosen_form, depth),
                      fd, chosen_form, depth)

\* The outcome of a handler that may commit a choice: the model it leaves,
\* whether it returned true (done), and what it handed to the choice
\* handler: the position in items of the item, and the form.
Outcome(mm, done, via, item, form) ==
    [m |-> mm, done |-> done, via |-> via, item |-> item, form |-> form]

\* the dispatch on it.kind that follows the choice of items[idx]
commit_item(mm, idx, chosen_form, load, via) ==
    IF mm.items[idx].kind = "cmd"
    THEN Outcome(handle_command_choice(mm, mm.items[idx], chosen_form, load),
                 TRUE, via, <<idx>>, chosen_form)
    ELSE IF mm.items[idx].kind = "flag" /\ mm.items[idx].flag_def # <<>>
    THEN Outcome(handle_flag_choice(mm, mm.items[idx].flag_def[1], chosen_form,
                                    mm.items[idx].depth),
                 TRUE, via, <<idx>>, chosen_form)
    ELSE Outcome(mm, FALSE, "none", <<>>, <<>>)

\* it.forms.first().cloned().unwrap_or_default()
first_form(it) == IF it.forms = <<>> THEN <<>> ELSE it.forms[1]

\* the matches of process_numeric_selection: over the baseline when there is
\* one, over all of items otherwise
numeric_selection_matches(mm) ==
    numeric_matches(IF mm.numeric_baseline # <<>> THEN mm.numeric_baseline[1]
                    ELSE [i \in 1..Len(mm.items) |-> i],
                    mm.typed_raw)

\* a commit made with a baseline ends with numeric_baseline = None
numeric_commit(mm, out) ==
    IF out.done /\ mm.numeric_baseline # <<>>
    THEN [out EXCEPT !.m.numeric_baseline = <<>>]
    ELSE out

process_numeric_selection(mm, load) ==
    IF ~all_digits(mm.typed_raw) THEN Outcome(mm, FALSE, "none", <<>>, <<>>)
    ELSE IF Len(numeric_selection_matches(mm)) # 1
    THEN Outcome(mm, FALSE, "none", <<>>, <<>>)
    ELSE numeric_commit(mm,
             commit_item(mm, numeric_selection_matches(mm)[1],
                         first_form(mm.items[numeric_selection_matches(mm)[1]]),
                         load, "numeric"))

try_immediate_assignment_selection(mm, asg, forms, load) ==
    IF /\ Len(asg) = 1 /\ asg[1].prefix = <<>>
       /\ Len(render_visible_items(mm)) = 1
       /\ asg[1].index <= Len(forms)
       /\ form_map_get(mm.items, forms[asg[1].index]) # <<>>
    THEN commit_item(mm, form_map_get(mm.items, forms[asg[1].index])[1],
                     forms[asg[1].index], load, "acekey")
    ELSE Outcome(mm, FALSE, "none", <<>>, <<>>)

\* the first step of handle_rune on an ACE rune: the typed buffers
typed_for_rune(mm, r) ==
    IF /\ is_ascii_digit(r) /\ ~all_digits(mm.typed_raw)
       /\ ~simulate_alpha_treatment(mm, r, all_digits(mm.typed_raw))
    THEN capture_numeric_baseline(mm, r)
    ELSE update_typed_for_rune(mm, r, all_digits(mm.typed_raw))

\* the selection that ends handle_rune: asg is the engine's answer for the
\* new buffer, numeric the outcome of process_numeric_selection
select_after_typed(mm, asg, numeric, load) ==
    IF numeric.done THEN numeric
    ELSE IF asg.some
    THEN try_immediate_assignment_selection(mm, asg.list, all_forms(mm.items), load)
    ELSE Outcome(mm, FALSE, "none", <<>>, <<>>)

\* handle_rune from line 300 on: typed is the model with its typed buffers
\* updated, asg the engine's answer for them, load what carapace::export
\* answers if it is called
handle_rune(typed, asg, load) ==
    select_after_typed(typed, asg, process_numeric_selection(typed, load), load)

RECURSIVE restore_walk(_, _, _)
\* the loop of restore_current_after_pop over stack[1..]: it stops at the
\* first name that is no subcommand of cur
restore_walk(cur, stack, i) ==
    IF i > Len(stack) THEN cur
    ELSE IF find_subcommand(cur, stack[i].name) = <<>> THEN cur
    ELSE restore_walk(find_subcommand(cur, stack[i].name)[1], stack, i + 1)

restore_current_after_pop(mm) ==
    IF mm.ast.root # <<>> /\ mm.ast.stack[1].name \in DOMAIN mm.def_cache
    THEN build_items_from_command(
             [mm EXCEPT !.current =
                 <<restore_walk(mm.def_cache[mm.ast.stack[1].name],
                                mm.ast.stack, 2)>>],
             restore_walk(mm.def_cache[mm.ast.stack[1].name], mm.ast.stack, 2))
    ELSE [mm EXCEPT !.current = <<>>, !.items = <<>>]

set_items_from_carapace_entries(mm, entries) ==
    [mm EXCEPT
        !.items = sort_items(
            [k \in 1..Len(entries) |->
                ChooseItem("cmd", entries[k], <<entries[k]>>, <<>>, <<>>, 0)]),
        !.current = <<>>,
        !.ast = [@ EXCEPT !.root = <<>>,
                          !.stack = IF @ = <<>> THEN @
                                    ELSE [@ EXCEPT ![1].name = <<>>]]]

\* handle_key_backspace with a typed buffer: always clears the baseline
backspace_typed_clear_baseline(mm) ==
    [mm EXCEPT !.typed = pop_back(@), !.typed_raw = pop_back(@),
               !.numeric_baseline = <<>>]

\* handle_key_backspace with a typed buffer (lines 42-50)
backspace_typed(mm) ==
    [mm EXCEPT !.typed = pop_back(@), !.typed_raw = pop_back(@),
               !.numeric_baseline =
                   IF pop_back(mm.typed_raw) = <<>> THEN <<>> ELSE @]

\* the root command alone, without flags and positionals, is on the stack
at_bare_root(mm) ==
    /\ mm.ast.stack # <<>>
    /\ mm.ast.root # <<>>
    /\ Len(mm.ast.stack) = 1
    /\ mm.ast.stack[1].flags = <<>>
    /\ mm.ast.stack[1].positionals = <<>>

\* handle_key_backspace with an empty typed buffer, past the root case: one
\* step of undo that never restores current and items
backspace_undo_keep_items(mm) == [mm EXCEPT !.ast = remove_last(@)]

\* handle_key_backspace with an empty typed buffer, past the root case
\* (lines 71-76)
backspace_undo(mm) ==
    IF Len(remove_last(mm.ast).stack) < Len(mm.ast.stack)
    THEN restore_current_after_pop([mm EXCEPT !.ast = remove_last(@)])
    ELSE [mm EXCEPT !.ast = remove_last(@)]

\* handle_key_backspace; listed tells whether carapace::list_with_desc
\* answers Ok(entries)
handle_key_backspace(mm, listed, entries) ==
    IF mm.typed # <<>> THEN backspace_typed(mm)
    ELSE IF at_bare_root(mm)
    THEN IF listed THEN set_items_from_carapace_entries(mm, entries)
         ELSE [mm EXCEPT !.err = ExportError]
    ELSE backspace_undo(mm)

handle_key_enter(mm) ==
    IF mm.in_value_mode /\ mm.pending_pos
    THEN [mm EXCEPT
             !.ast = IF mm.pending_value # <<>>
                     THEN add_positional(@, mm.pending_value) ELSE @,
             !.in_value_mode = FALSE, !.pending_pos = FALSE,
             !.pending_value = <<>>]
    ELSE IF mm.in_value_mode /\ mm.pending_flag # <<>>
    THEN [mm EXCEPT
             !.ast = add_flag_to_depth(@, mm.pending_depth, mm.pending_form,
                                       mm.pending_value),
             !.in_value_mode = FALSE, !.pending_flag = <<>>,
             !.pending_form = <<>>, !.pending_value = <<>>]
    ELSE IF render_preview(mm.ast) = <<>> THEN mm
    ELSE [mm EXCEPT !.exit_preview = render_preview(mm.ast)]

handle_key_space(mm) ==
    [mm EXCEPT !.in_value_mode = TRUE, !.pending_pos = TRUE]

\* handle_key_esc that keeps the pending flag
handle_key_esc_keep_flag(mm) ==
    IF mm.in_value_mode
    THEN [mm EXCEPT !.in_value_mode = FALSE, !.pending_form = <<>>,
                    !.pending_pos = FALSE, !.pending_depth = 0,
                    !.pending_value = <<>>]
    ELSE mm

handle_key_esc(mm) ==
    IF mm.in_value_mode
    THEN [mm EXCEPT !.in_value_mode = FALSE, !.pending_flag = <<>>,
                    !.pending_form = <<>>, !.pending_pos = FALSE,
                    !.pending_depth = 0, !.pending_value = <<>>]
    ELSE mm

\* nothing committed
NoChoice == [key |-> <<>>, done |-> FALSE, via |-> "none", item |-> <<>>,
             form |-> <<>>, load |-> "none"]

----------------------------------------------------------------------------
(* The keystroke session: the engine is re-invoked from scratch on every   *)
(* rune (handle_rune) and on every render (assign_prefix_map).             *)

s_aab == <<"a", "a", "b">>
s_a_a == <<"a", "-", "a">>
s_Ab == <<"A", "b">>
s_h == <<"-">>
s_hha == <<"-", "-", "a">>
s_hab == <<"-", "a", "b">>
s_none == <<"_">>

\* the labels the pools are drawn from; "_" has no ACE rune
Labels == {s_aab, s_a_a, s_Ab, s_h, s_hha, s_hab, s_none}

\* the forms of one item list, in list order; a label may occur twice
Pools == UNION {[1..n -> Labels] : n \in 1..MaxPool}

\* the runes a Msg::Rune can carry in the model; "_" is not an ACE rune
Runes == {"a", "b", "A", "-", "_"}

Init ==
    /\ elements \in Pools
    /\ typed_raw = <<>>
    /\ res \in assign_ace_keys(elements, <<>>)
    /\ shown = res
    /\ key = <<>>
    /\ drive = {}
    /\ model = DefaultModel
    /\ before = model
    /\ last = NoChoice
    /\ msg = "none"
    /\ seg = NoSegment
    /\ line = NoLine

\* drive_to_target: the first keystroke is the target's first character,
\* every later one the prefix assigned to the target by the previous call
drive_after(r) ==
    IF typed_raw = <<>>
    THEN {i \in 1..Len(elements) :
             clean_string(elements[i]) # <<>> /\ clean_string(elements[i])[1] = r}
    ELSE {i \in drive : \E k \in 1..Len(res.list) :
             res.list[k].index = i /\ res.list[k].prefix = <<r>>}

\* handle_rune outside numeric mode: a rune that is not an ACE rune is
\* dropped, any other is pushed on the typed buffer and the engine is called
\* on the new buffer.  The action is the outcome of the handler in which the
\* selection that follows the call commits nothing and the buffer is kept
\* (try_immediate_assignment_selection returns false, or the load of the
\* chosen command fails), so every typed buffer reaches the engine.
Rune(r) ==
    /\ Len(typed_raw) < MaxTyped
    /\ IF ~is_single_ace_rune(<<r>>)
       THEN UNCHANGED vars
       ELSE /\ typed_raw' = Append(typed_raw, r)
            /\ res' \in assign_ace_keys(elements, typed_raw')
            /\ shown' = res
            /\ key' = <<r>>
            /\ drive' = drive_after(r)
            /\ UNCHANGED <<elements, model, before, last, msg, seg, line>>

\* assign_prefix_map: a render calls the engine again on the same input
Rerender ==
    /\ res' \in assign_ace_keys(elements, typed_raw)
    /\ shown' = res
    /\ key' = <<>>
    /\ UNCHANGED <<elements, typed_raw, drive, model, before, last, msg, seg,
                   line>>

Next == (\E r \in Runes : Rune(r)) \/ Rerender

Spec == Init /\ [][Next]_vars

\* The same session over labels with a hyphen inside their body, whose
\* typed buffers reach the no-candidates fallback of the engine
s_a_ab == <<"a", "-", "a", "b">>
s_a_c == <<"a", "-", "c">>
s_hhab == <<"-", "-", "a", "b">>

BodyLabels == {s_a_ab, s_a_c, s_hab, s_hhab}

BodyPools == UNION {[1..n -> BodyLabels] : n \in 1..MaxPool}

BodyInit ==
    /\ elements \in BodyPools
    /\ typed_raw = <<>>
    /\ res \in assign_ace_keys(elements, <<>>)
    /\ shown = res
    /\ key = <<>>
    /\ drive = {}
    /\ model = DefaultModel
    /\ before = model
    /\ last = NoChoice
    /\ msg = "none"
    /\ seg = NoSegment
    /\ line = NoLine

BodySpec == BodyInit /\ [][Next]_vars

TypeOK ==
    /\ elements \in Pools
    /\ Len(typed_raw) <= MaxTyped
    /\ res.some \in BOOLEAN
    /\ \A k \in 1..Len(res.list) : Len(res.list[k].prefix) <= 1

----------------------------------------------------------------------------
(* The selection session: the Model under Msg::Rune (update, handle_rune)  *)

MaxKeys == 2
MaxOps == 2

\* the command names carapace lists at start-up: eleven, so that the number
\* 1 is a prefix of the numbers 10 and 11
Entries ==
    << <<"a">>, <<"b">>, <<"1", "b">>, <<"2", "a">>, <<"a", "1">>,
       <<"a", "b">>, <<"b", "1">>, <<"b", "b">>, <<"b", "c">>,
       <<"a", "b", "c">>, <<"b", "-", "a">> >>

\* the runes a Msg::Rune can carry in this session; "_" is not an ACE rune
UiRunes == {"a", "b", "-", "1", "2", "_"}

\* handle_command_choice reaches carapace::export for this item
calls_export(mm, it) ==
    it.kind = "cmd" /\ ((mm.current = <<>> /\ mm.ast.root = <<>>) \/ it.cmd_def = <<>>)

\* the answers carapace::export can give in this state: it can only be
\* called for an item that needs a load
loads_of(mm) ==
    IF \E i \in 1..Len(mm.items) : calls_export(mm, mm.items[i])
    THEN Loads ELSE {"ok"}

\* the record of the last message: its rune, the outcome of handle_rune
\* and, when the handler called carapace::export, what export answered
choice_made(mm, r, out, load) ==
    [key |-> <<r>>, done |-> out.done, via |-> out.via, item |-> out.item,
     form |-> out.form,
     load |-> IF out.done /\ calls_export(mm, mm.items[out.item[1]])
              THEN (IF export_ok(cmd_name_of(mm.items[out.item[1]], out.form), load)
                    THEN "ok" ELSE "err")
              ELSE "none"]

UiInit ==
    /\ model = initial_model(Entries)
    /\ before = model
    /\ last = NoChoice
    /\ elements = all_forms(model.items)
    /\ typed_raw = <<>>
    /\ res = None
    /\ shown = None
    /\ key = <<>>
    /\ drive = {}
    /\ msg = "none"
    /\ seg = NoSegment
    /\ line = NoLine

\* Model::update on Msg::Rune(r): handle_rune, whole.  The engine's answer
\* for the new buffer (line 301) is kept in res.  The exploration stops at
\* typed buffers of MaxKeys runes and at histories of MaxOps operations.
\* Msg::Rune(r) handled by Model::update
UiRuneStep(r) ==
    IF ~is_single_ace_rune(<<r>>)
    THEN UNCHANGED vars
    ELSE \E load \in loads_of(model), typed \in {typed_for_rune(model, r)} :
         /\ Len(typed.typed_raw) <= MaxKeys
         /\ res' \in assign_ace_keys(all_forms(typed.items), typed.typed_raw)
         /\ \E out \in {handle_rune(typed, res', load)} :
               /\ model' = out.m
               /\ last' = choice_made(model, r, out, load)
         /\ before' = model
         /\ elements' = all_forms(model'.items)
         /\ typed_raw' = model'.typed_raw
         /\ shown' = res
         /\ key' = <<r>>
         /\ msg' = "rune"
         /\ UNCHANGED <<drive, seg, line>>

UiRune(r) ==
    /\ Len(model.ast.history) < MaxOps
    /\ UiRuneStep(r)

UiNext == \E r \in UiRunes : UiRune(r)

UiSpec == UiInit /\ [][UiNext]_vars

----------------------------------------------------------------------------
(* The toggle session: the selection session over the two commands of the *)
(* key session, long enough to commit a flag that is followed by another  *)
(* one.                                                                    *)

\* the longest history of the AST in the toggle session
MaxFlags == 3

ToggleRunes == {"1", "2", "3", "4", "-"}

ToggleInit ==
    /\ model = initial_model(<< <<"a">>, <<"b">> >>)
    /\ before = model
    /\ last = NoChoice
    /\ elements = all_forms(model.items)
    /\ typed_raw = <<>>
    /\ res = None
    /\ shown = None
    /\ key = <<>>
    /\ drive = {}
    /\ msg = "none"
    /\ seg = NoSegment
    /\ line = NoLine

ToggleRune(r) ==
    /\ Len(model.ast.history) < MaxFlags
    /\ UiRuneStep(r)

ToggleNext == \E r \in ToggleRunes : ToggleRune(r)

ToggleSpec == ToggleInit /\ [][ToggleNext]_vars

----------------------------------------------------------------------------
(* The key session: the Model under every key message of Model::update.   *)
(* run.rs quits the program once Enter has left an exit_preview.           *)

\* the command names carapace lists in the key session
KeyEntries == << <<"a">>, <<"b">> >>

\* the runes a Msg::Rune can carry in the key session
KeyRunes == {"a", "b", "-", "2"}

KeyInit ==
    /\ model = initial_model(KeyEntries)
    /\ before = model
    /\ last = NoChoice
    /\ elements = all_forms(model.items)
    /\ typed_raw = <<>>
    /\ res = None
    /\ shown = None
    /\ key = <<>>
    /\ drive = {}
    /\ msg = "none"
    /\ seg = NoSegment
    /\ line = NoLine

\* Msg::Rune(r) while the program runs
KeyRune(r) == model.exit_preview = <<>> /\ UiRune(r)

\* the bookkeeping of a key message that is no rune: after is the Model the
\* handler leaves, load what carapace answered if it was asked
KeyHandled(name, after, load) ==
    /\ model.exit_preview = <<>>
    /\ model' = after
    /\ before' = model
    /\ last' = [NoChoice EXCEPT !.load = load]
    /\ msg' = name
    /\ elements' = all_forms(model'.items)
    /\ typed_raw' = model'.typed_raw
    /\ res' = None
    /\ shown' = res
    /\ key' = <<>>
    /\ UNCHANGED <<drive, seg, line>>

\* Msg::KeyBackspace: handle_key_backspace; carapace::list_with_desc is
\* asked only at the bare root, and answers the start-up list or an error
KeyBackspace ==
    IF model.typed = <<>> /\ at_bare_root(model)
    THEN \E listed \in BOOLEAN :
            KeyHandled("backspace",
                       handle_key_backspace(model, listed, KeyEntries),
                       IF listed THEN "ok" ELSE "err")
    ELSE KeyHandled("backspace", handle_key_backspace(model, TRUE, KeyEntries),
                    "none")

\* Msg::KeyEnter: handle_key_enter
KeyEnter ==
    /\ Len(model.ast.history) < MaxOps
    /\ KeyHandled("enter", handle_key_enter(model), "none")

\* Msg::KeySpace: handle_key_space
KeySpace == KeyHandled("space", handle_key_space(model), "none")

\* Msg::KeyEsc: handle_key_esc
KeyEsc == KeyHandled("esc", handle_key_esc(model), "none")

KeyNext ==
    \/ \E r \in KeyRunes : KeyRune(r)
    \/ KeyBackspace
    \/ KeyEnter
    \/ KeySpace
    \/ KeyEsc

KeySpec == KeyInit /\ [][KeyNext]_vars

----------------------------------------------------------------------------
(* A Segment under its own operations (crates/src/ast.rs).  seg.log is the *)
(* list of the operations applied and not yet undone, seg.undone the       *)
(* operation the last remove_last had to undo.                             *)

MaxLog == 3

SegNames == {<<"s">>}
SegForms == {<<"-", "f">>, <<"-", "g">>}
SegValues == {<<>>, <<"v">>}
SegPositionals == {<<"p">>, <<"q">>}

\* one logged operation applied to a Segment
apply_op(ast, op) ==
    IF op.kind = "subcmd" THEN push_subcommand(ast, op.name)
    ELSE IF op.kind = "flag"
    THEN add_flag_to_depth(ast, op.depth, op.form, op.value)
    ELSE add_positional(ast, op.val)

RECURSIVE replay(_, _)
\* the Segment that the operations of log build on ast
replay(ast, log) ==
    IF log = <<>> THEN ast ELSE replay(apply_op(ast, Head(log)), Tail(log))

SegInit ==
    /\ seg = [ast |-> new_empty(<<"r">>), log |-> <<>>, undone |-> <<>>]
    /\ line = NoLine
    /\ model = DefaultModel
    /\ before = model
    /\ last = NoChoice
    /\ msg = "none"
    /\ elements = <<>>
    /\ typed_raw = <<>>
    /\ res = None
    /\ shown = None
    /\ key = <<>>
    /\ drive = {}

\* the operation op is applied and logged
SegApply(op) ==
    /\ Len(seg.log) < MaxLog
    /\ seg' = [ast |-> apply_op(seg.ast, op), log |-> Append(seg.log, op),
               undone |-> <<>>]
    /\ UNCHANGED <<elements, typed_raw, res, shown, key, drive, model, before,
                   last, msg, line>>

\* Segment::push_subcommand
SegPush == \E n \in SegNames : SegApply([kind |-> "subcmd", name |-> n])

\* Segment::add_flag_to_depth with a valid depth
SegAddFlag ==
    \E d \in 0..(Len(seg.ast.stack) - 1), f \in SegForms, v \in SegValues :
        SegApply([kind |-> "flag", depth |-> d, form |-> f, value |-> v])

\* Segment::add_positional
SegAddPositional ==
    \E p \in SegPositionals : SegApply([kind |-> "pos", val |-> p])

\* Segment::remove_last
SegRemoveLast ==
    /\ seg' = [ast |-> remove_last(seg.ast), log |-> pop_back(seg.log),
               undone |-> IF seg.log = <<>> THEN <<>>
                          ELSE <<seg.log[Len(seg.log)]>>]
    /\ UNCHANGED <<elements, typed_raw, res, shown, key, drive, model, before,
                   last, msg, line>>

SegNext == SegPush \/ SegAddFlag \/ SegAddPositional \/ SegRemoveLast

SegSpec == SegInit /\ [][SegNext]_vars

----------------------------------------------------------------------------
(* A CommandLine under its own operations (crates/src/ast.rs).  line.cl is *)
(* the CommandLine, line.before what it was before the last operation,     *)
(* line.op the name of that operation.                                     *)

MaxSegs == 3

\* the root names written through focused_segment_mut
LineRoots == {<<"c">>}

LineInit ==
    /\ line = [cl |-> new_line, before |-> new_line, op |-> "new"]
    /\ seg = NoSegment
    /\ model = DefaultModel
    /\ before = model
    /\ last = NoChoice
    /\ msg = "none"
    /\ elements = <<>>
    /\ typed_raw = <<>>
    /\ res = None
    /\ shown = None
    /\ key = <<>>
    /\ drive = {}

\* the operation named op has turned the CommandLine into after
LineOp(op, after) ==
    /\ line' = [cl |-> after, before |-> line.cl, op |-> op]
    /\ UNCHANGED <<elements, typed_raw, res, shown, key, drive, model, before,
                   last, msg, seg>>

\* CommandLine::add_segment
LineAddSegment ==
    /\ Len(line.cl.segments) < MaxSegs
    /\ LineOp("add_segment", add_segment(line.cl))

\* CommandLine::remove_focused_segment
LineRemoveFocused ==
    LineOp("remove_focused_segment", remove_focused_segment(line.cl))

\* CommandLine::focus_next
LineFocusNext == LineOp("focus_next", focus_next(line.cl))

\* CommandLine::focus_prev
LineFocusPrev == LineOp("focus_prev", focus_prev(line.cl))

\* focused_segment_mut().root = name, as the tests of ast.rs write it
LineSetRoot ==
    \E n \in LineRoots :
        LineOp("set_root",
               [line.cl EXCEPT
                   !.segments[line.cl.focused_segment_idx + 1].root = n])

LineNext ==
    \/ LineAddSegment
    \/ LineRemoveFocused
    \/ LineFocusNext
    \/ LineFocusPrev
    \/ LineSetRoot

LineSpec == LineInit /\ [][LineNext]_vars

----------------------------------------------------------------------------
(* Vocabulary of the properties *)

\* the normalized form of element i
CleanOf(i) == clean_string(elements[i])

\* the elements that are candidates: those with a non-empty normalized form
Candidates == {i \in 1..Len(elements) : CleanOf(i) # <<>>}

TypedClean == clean_string(typed_raw)
TypedLower == to_lowercase(TypedClean)
TypedLeftUnit == leftmost_unit(TypedLower)

\* the typed buffer before the last rune
TypedBefore == SubSeq(typed_raw, 1, Len(typed_raw) - 1)

IsLeftUnit(t) == t # <<>> /\ leftmost_unit(t) = t

\* candidate i is anchored on the typed left unit, case-insensitively, a
\* typed "-" also matching "--"
AnchoredOnTyped(i) ==
    LET lu == to_lowercase(leftmost_unit(CleanOf(i)))
    IN  lu = TypedLeftUnit \/ (TypedLeftUnit = Hyphen /\ lu = DoubleHyphen)

IndicesIn(r) == {r.list[k].index : k \in 1..Len(r.list)}

Selected(i) == Some(<<Assignment(i, <<>>)>>)

Ambiguous(r) == r.some /\ Len(r.list) >= 2

\* the call on the current input gets past the early exits and into the
\* Token Narrowing Controller (acekey.rs 591-613)
ReachesNarrowing ==
    LET infos == build_infos(elements)
    IN  /\ has_extra_tokens(TypedLower, TypedLeftUnit)
        /\ whole_label_match(infos, TypedClean, TypedLower, TypedLeftUnit) = <<>>
        /\ exact_case_precedence(infos, TypedClean) = <<>>

\* the base-anchored candidates of the current input (acekey.rs 616-627)
BaseList ==
    SelectSeq(build_infos(elements), LAMBDA it : lu_matches_typed(it, TypedLeftUnit))

ExtraChars == skip(TypedLower, Len(TypedLeftUnit))

BaseAssigns ==
    allocate_disambiguators_filtered(BaseList, TypedLeftUnit, Len(elements))

\* a token of the current input matched no assigned disambiguator
NarrowingAbandoned ==
    /\ ReachesNarrowing /\ BaseList # <<>>
    /\ narrowing_abandoned(0, ExtraChars, BaseList,
           matching_assigns(0, ExtraChars, BaseList, BaseAssigns,
                            TypedLeftUnit, Len(elements)),
           BaseAssigns, TypedLeftUnit, Len(elements))

\* what the standard Candidate Filter path yields for the current input
StandardResult ==
    candidate_filter_path(build_infos(elements), TypedClean, TypedLower,
                          TypedLeftUnit, Len(elements))

\* the candidate lists on which disambiguators are allocated by the call on
\* the current input
AllocationRounds == allocation_rounds(elements, typed_raw)

LuLowerOf(it) == to_lowercase(it.lu)

----------------------------------------------------------------------------
(* Properties *)

\* C1: when the typed buffer was exactly a left unit and the engine returned
\* two or more assignments, typing the disambiguator displayed for a
\* candidate makes the engine return that candidate alone with an empty
\* disambiguator.
C1_DisambiguatorSelects ==
    (key # <<>> /\ IsLeftUnit(TypedBefore) /\ Ambiguous(shown)) =>
        \A k \in 1..Len(shown.list) :
            shown.list[k].prefix = key => res = Selected(shown.list[k].index)

\* C2: the non-empty disambiguators of a result of two or more assignments
\* are pairwise distinct.  Stated for a non-empty typed buffer only: with
\* nothing typed the engine shows the left units, which candidates share.
C2_Uniqueness ==
    (typed_raw # <<>> /\ Ambiguous(res)) =>
        \A j, k \in 1..Len(res.list) :
            (j # k /\ res.list[j].prefix # <<>>) =>
                res.list[j].prefix # res.list[k].prefix

\* C3: a candidate driven by its own leading character and then by the
\* disambiguators assigned to it is still offered after every keystroke,
\* until it is returned alone; the drive never loses its target.  This is
\* what convergence needs of every step of the drive.
C3_DriveKeepsTarget ==
    \A i \in drive :
        /\ res.some
        /\ \E k \in 1..Len(res.list) :
              /\ res.list[k].index = i
              /\ res.list[k].prefix = <<>> => Len(res.list) = 1

\* C4: for a non-empty typed buffer no disambiguator equals the left unit
\* of the typed buffer, except "-" given to a doubled-marker candidate when
\* the typed buffer is "-".
C4_NoAnchorReuse ==
    (typed_raw # <<>> /\ res.some) =>
        \A k \in 1..Len(res.list) :
            res.list[k].prefix = leftmost_unit(TypedClean) =>
                /\ TypedClean = Hyphen
                /\ leftmost_unit(CleanOf(res.list[k].index)) = DoubleHyphen

\* C5: a second call with the same pool and the same typed buffer returns
\* the same list, in the same order, as the call before it.
C5_Determinism ==
    key = <<>> => res = shown

\* C6: with a non-empty typed buffer every assignment of a result of two or
\* more has a non-empty disambiguator.
C6_AmbiguousHaveKeys ==
    (typed_raw # <<>> /\ Ambiguous(res)) =>
        \A k \in 1..Len(res.list) : res.list[k].prefix # <<>>

\* C6 witness: an ambiguous result in which a candidate with no character
\* after its left unit still has a key
C6_Witness ==
    /\ typed_raw # <<>> /\ Ambiguous(res)
    /\ \E k \in 1..Len(res.list) :
          /\ Len(CleanOf(res.list[k].index)) = 1
          /\ res.list[k].prefix # <<>>

\* C7: for a non-empty typed buffer, when no candidate is anchored on the
\* typed left unit the engine returns None.
C7_NoMatch ==
    (typed_raw # <<>> /\ \A i \in Candidates : ~AnchoredOnTyped(i)) =>
        res = None

\* C7 witness: candidates exist, none is anchored on the typed left unit of
\* a buffer of several runes, and the call failed
C7_Witness ==
    /\ Len(typed_raw) >= 2 /\ Candidates # {}
    /\ \A i \in Candidates : ~AnchoredOnTyped(i)
    /\ res = None

\* C8: for a non-empty typed buffer, when exactly one candidate's
\* original-case normalized form starts with the typed buffer's, the engine
\* returns that candidate alone with an empty disambiguator.
C8_CaseExactPrefix ==
    typed_raw # <<>> =>
        \A i \in Candidates :
            (/\ starts_with(CleanOf(i), TypedClean)
             /\ \A j \in Candidates \ {i} : ~starts_with(CleanOf(j), TypedClean))
            => res = Selected(i)

\* C9: when the typed buffer's normalized form equals a candidate's, and the
\* typed buffer is not just a left unit shared by several candidates, the
\* engine returns one assignment with an empty disambiguator that refers to
\* a candidate of that normalized form.
C9_WholeLabel ==
    (/\ typed_raw # <<>>
     /\ \E i \in Candidates : CleanOf(i) = TypedClean
     /\ ~(/\ TypedLower = TypedLeftUnit
          /\ Cardinality({i \in Candidates :
                 to_lowercase(leftmost_unit(CleanOf(i))) = TypedLeftUnit}) > 1))
    => /\ res.some /\ Len(res.list) = 1
       /\ res.list[1].prefix = <<>>
       /\ res.list[1].index \in Candidates
       /\ CleanOf(res.list[1].index) = TypedClean

\* C10: when the typed buffer is exactly "-", the result has one assignment
\* for every candidate whose normalized form starts with a hyphen, and
\* with two or more such candidates the disambiguators are non-empty and
\* pairwise distinct.
C10_HyphenTyped ==
    LET H == {i \in Candidates : CleanOf(i)[1] = "-"}
    IN  (typed_raw = Hyphen /\ H # {}) =>
            /\ res.some
            /\ IndicesIn(res) = H /\ Len(res.list) = Cardinality(H)
            /\ Cardinality(H) >= 2 =>
                  \A j, k \in 1..Len(res.list) :
                      /\ res.list[j].prefix # <<>>
                      /\ j # k => res.list[j].prefix # res.list[k].prefix

\* C11: when the typed buffer is a left unit followed by exactly one more
\* character x, and exactly one candidate anchored on that left unit has x
\* (case-folded) after its left unit, the engine returns that candidate alone
\* with an empty disambiguator.
C11_BaseFullKey ==
    (TypedLeftUnit # <<>> /\ Len(TypedLower) = Len(TypedLeftUnit) + 1) =>
        LET x == TypedLower[Len(TypedLower)]
            holders == {i \in Candidates :
                           /\ AnchoredOnTyped(i)
                           /\ x \in chars_of(skip(to_lowercase(CleanOf(i)),
                                        Len(leftmost_unit(CleanOf(i)))))}
        IN  Cardinality(holders) = 1 => \A i \in holders : res = Selected(i)

\* C13: no assignment of a result, for any typed buffer, refers to a label
\* whose normalized form is empty.
C13_NoEmptyLabel ==
    res.some => IndicesIn(res) \subseteq Candidates

\* C14: with nothing typed the result has exactly one assignment for every
\* label with a non-empty normalized form, whose disambiguator is the
\* label's left unit, "--" being shown as "-".
C14_InitialPrefixes ==
    typed_raw = <<>> =>
        /\ res.some
        /\ IndicesIn(res) = Candidates
        /\ Len(res.list) = Cardinality(Candidates)
        /\ \A k \in 1..Len(res.list) :
              LET lu == leftmost_unit(CleanOf(res.list[k].index))
              IN  res.list[k].prefix = IF lu = DoubleHyphen THEN Hyphen ELSE lu

\* C14 witness: nothing is typed, the pool holds a doubled-marker label and a
\* label without any ACE rune, and the doubled-marker label is shown "-"
C14_Witness ==
    /\ typed_raw = <<>> /\ Candidates # 1..Len(elements)
    /\ \E k \in 1..Len(res.list) :
          /\ leftmost_unit(CleanOf(res.list[k].index)) = DoubleHyphen
          /\ res.list[k].prefix = Hyphen

\* C12: when a token after the left unit, the first or a later one, matches
\* no assigned disambiguator, the result of the call is what the standard
\* Candidate Filter path yields for the whole typed buffer over the whole
\* pool.
C12_NarrowingFallback ==
    NarrowingAbandoned => res = StandardResult

\* C15 as claimed: every candidate of every list on which disambiguators are
\* allocated has the left unit of the typed buffer, case-insensitively, or
\* has "--" while the typed buffer is exactly "-".
C15_SharedLeftUnitExactMarker ==
    \A round \in AllocationRounds : \A k \in 1..Len(round) :
        \/ LuLowerOf(round[k]) = TypedLeftUnit
        \/ (TypedLower = Hyphen /\ LuLowerOf(round[k]) = DoubleHyphen)

\* C15 amended: every candidate of every list on which disambiguators are
\* allocated has the left unit of the typed buffer, case-insensitively, or
\* has "--" while the left unit of the typed buffer is "-".
C15_SharedLeftUnit ==
    \A round \in AllocationRounds : \A k \in 1..Len(round) :
        \/ LuLowerOf(round[k]) = TypedLeftUnit
        \/ (TypedLeftUnit = Hyphen /\ LuLowerOf(round[k]) = DoubleHyphen)

\* C15 witness: a buffer longer than the single marker it starts with, and
\* an allocation over a list that holds a "-" and a "--" candidate
C15_Witness ==
    /\ TypedLeftUnit = Hyphen /\ Len(TypedLower) > 1
    /\ \E round \in AllocationRounds :
          /\ \E k \in 1..Len(round) : LuLowerOf(round[k]) = Hyphen
          /\ \E k \in 1..Len(round) : LuLowerOf(round[k]) = DoubleHyphen

----------------------------------------------------------------------------
(* Vocabulary of the selection session (UiSpec)                            *)

\* the last message was a rune that handle_rune did not drop
RuneHandled == key # <<>>

\* the Model after the typed buffers were updated for the last rune
TypedStep == typed_for_rune(before, key[1])

\* the forms handed to the engine by the last handle_rune
FormsBefore == all_forms(before.items)

\* the last rune was taken as numeric input: a baseline is in force after
\* the typed buffers were updated
NumericKey == RuneHandled /\ TypedStep.numeric_baseline # <<>>

\* the last rune was taken as AceKey (alpha) input
AlphaKey == RuneHandled /\ TypedStep.numeric_baseline = <<>>

\* the last rune was typed outside numeric mode: no baseline, and the new
\* typed buffer is not purely digits
OutsideNumericMode == AlphaKey /\ ~all_digits(TypedStep.typed_raw)

\* the engine answered one assignment with an empty disambiguator
SingleSelection == res.some /\ Len(res.list) = 1 /\ res.list[1].prefix = <<>>

\* the item the last message chose
ChosenItem == before.items[last.item[1]]

\* the name under which a chosen command enters the AST
ChosenName == cmd_name_of(ChosenItem, last.form)

\* how often a form is among the flags of the node at a depth
count_form(ast, depth, form) ==
    IF depth >= Len(ast.stack) THEN 0
    ELSE Cardinality({p \in 1..Len(ast.stack[depth + 1].flags) :
                         ast.stack[depth + 1].flags[p].form = form})

\* the chosen command was loaded as root, or pushed as a subcommand
CommandEntered ==
    IF before.current = <<>> /\ before.ast.root = <<>>
    THEN /\ model.ast.root = ChosenName
         /\ model.current # <<>> /\ model.current[1].name = ChosenName
    ELSE /\ Len(model.ast.stack) = Len(before.ast.stack) + 1
         /\ model.ast.stack[Len(model.ast.stack)].name = ChosenName

\* the chosen flag was toggled at its depth, or its value entry was started
FlagToggledOrValueStarted ==
    LET was == count_form(before.ast, ChosenItem.depth, last.form)
        now == count_form(model.ast, ChosenItem.depth, last.form)
    IN  \/ (was > 0 /\ now = was - 1)
        \/ (was = 0 /\ now = 1 /\ ~ChosenItem.flag_def[1].requires_value)
        \/ /\ was = 0 /\ now = 0 /\ ChosenItem.flag_def[1].requires_value
           /\ model.in_value_mode /\ model.pending_form = last.form
           /\ model.pending_flag = ChosenItem.flag_def

\* the effect of committing the chosen item
Committed ==
    /\ last.done
    /\ IF ChosenItem.kind = "cmd" THEN CommandEntered
       ELSE FlagToggledOrValueStarted

----------------------------------------------------------------------------
(* Properties of the selection session *)

\* C16: Auto-commit.  After a rune outside numeric mode (no baseline, and
\* the new typed buffer is not purely digits), if the engine returns exactly
\* one assignment with an empty disambiguator for the new typed buffer, the
\* item owning that form is committed in the same update: a command is
\* pushed on the AST or loaded as root, a flag is toggled or its value entry
\* is started.  (A load that carapace refuses is not counted against the
\* statement.)
C16_AutoCommit ==
    (OutsideNumericMode /\ SingleSelection /\ last.load # "err") =>
        /\ last.done
        /\ has_form(ChosenItem, FormsBefore[res.list[1].index])
        /\ last.form = FormsBefore[res.list[1].index]
        /\ Committed

\* the last rune was typed in numeric mode: a baseline is in force and the
\* new typed buffer is purely digits
InNumericMode == NumericKey /\ all_digits(TypedStep.typed_raw)

\* the entries of the baseline whose number (index + 1 in the source, the
\* position here) starts with the typed digits
BaselineHits ==
    {k \in 1..Len(TypedStep.numeric_baseline[1]) :
        starts_with(to_string(TypedStep.numeric_baseline[1][k]),
                    TypedStep.typed_raw)}

\* C17: Numeric selection.  In numeric mode, after a digit is typed, an item
\* is committed if and only if exactly one baseline index has a number
\* starting with the typed digits, and the committed item is the item of
\* that index; otherwise nothing is committed and the digits stay in the
\* buffer.  (When carapace refuses the load of the chosen command the choice
\* is made but enters nothing in the AST.)
C17_NumericSelection ==
    InNumericMode =>
        IF Cardinality(BaselineHits) = 1
        THEN /\ last.done /\ last.via = "numeric"
             /\ \A k \in BaselineHits :
                   last.item = <<TypedStep.numeric_baseline[1][k]>>
             /\ last.form = first_form(ChosenItem)
             /\ last.load # "err" => Committed
        ELSE ~last.done /\ model = TypedStep

\* a second digit made the number unique and the item of that number, a
\* command, was loaded
C17_Witness ==
    /\ InNumericMode /\ Len(TypedStep.typed_raw) = 2
    /\ Cardinality(BaselineHits) = 1
    /\ last.done /\ last.load = "ok" /\ Committed
    /\ ChosenItem.label = <<"b", "-", "a">>

\* the list the user saw before the last message, as positions in items
ShownBefore == render_visible_items(before)

\* C18: Gutter-number consistency.  For an alpha typed buffer, if the
\* rendered list shows number n in the gutter of an item and the user then
\* types the digit n, entering numeric mode, and n identifies a unique entry
\* of that list, the item committed is the item that was displayed next to n
\* (read weakly: whatever that digit commits is that item).
C18_GutterConsistency ==
    (/\ RuneHandled /\ before.numeric_baseline = <<>>
     /\ ~all_digits(before.typed_raw) /\ NumericKey) =>
        LET hits == {k \in 1..Len(ShownBefore) :
                        starts_with(gutter_number(k - 1), TypedStep.typed_raw)}
        IN  (Cardinality(hits) = 1 /\ last.done) =>
                \A k \in hits : last.item = <<ShownBefore[k]>>

\* the last rune was an ASCII letter typed on a purely numeric buffer with a
\* baseline in force
LetterAfterDigits ==
    /\ RuneHandled /\ is_ascii_alphabetic(key[1])
    /\ all_digits(before.typed_raw) /\ before.numeric_baseline # <<>>

DigitTakenAsAlpha ==
    /\ RuneHandled /\ is_ascii_digit(key[1])
    /\ ~all_digits(before.typed_raw) /\ before.numeric_baseline = <<>>
    /\ simulate_alpha_treatment(before, key[1], FALSE)

\* C20: a digit typed while the buffer is not purely numeric is treated as
\* AceKey input whenever the engine returns a non-empty assignment list for
\* typed buffer + digit (or the single item has the digit in a form):
\* numeric_baseline stays None, the digit is appended to typed_raw, and no
\* index-based selection is made by that keystroke.
C20_DigitAsAlpha ==
    DigitTakenAsAlpha =>
        /\ model.numeric_baseline = <<>>
        /\ TypedStep.typed_raw = Append(before.typed_raw, key[1])
        /\ last.via # "numeric"
        /\ ~last.done => model.typed_raw = Append(before.typed_raw, key[1])

----------------------------------------------------------------------------
(* Properties of the key session (KeySpec)                                 *)

\* the last rune changed the command line: the stack of the AST grew or a
\* node's flags changed
AstChanged == model.ast.stack # before.ast.stack

\* C21: after any Rune message that commits a selection (a subcommand is
\* pushed onto the AST or the root command is loaded, a flag is added or
\* removed, or a flag value entry is started), typed and typed_raw are both
\* empty.
C21_CommitClearsTyped ==
    (RuneHandled /\ (Committed \/ AstChanged)) =>
        model.typed = <<>> /\ model.typed_raw = <<>>

\* a flag was committed by the second rune of a typed buffer
C21_Witness ==
    /\ RuneHandled /\ Committed
    /\ ChosenItem.kind = "flag"
    /\ before.typed_raw # <<>>
    /\ model.typed = <<>> /\ model.typed_raw = <<>>

\* the last message was Enter, pressed while value mode was active and a
\* flag was pending
EnterOnPendingFlag ==
    msg = "enter" /\ before.in_value_mode /\ before.pending_flag # <<>>

\* the flags of the node at a depth, <<>> when there is no such node
flags_at(ast, depth) ==
    IF depth < Len(ast.stack) THEN ast.stack[depth + 1].flags ELSE <<>>

\* C22: in any reachable state where value mode is active and a flag is
\* pending, Enter adds pending_form with pending_value to the AST node at
\* pending_depth, and afterwards in_value_mode is false and pending_flag is
\* None.
C22_EnterAddsPendingFlag ==
    EnterOnPendingFlag =>
        /\ before.pending_depth < Len(model.ast.stack)
        /\ flags_at(model.ast, before.pending_depth) =
               Append(flags_at(before.ast, before.pending_depth),
                      [form |-> before.pending_form,
                       value |-> before.pending_value])
        /\ ~model.in_value_mode
        /\ model.pending_flag = <<>>

\* the fields of the Model that hold a pending value entry are reset
NoPendingEntry ==
    /\ ~model.in_value_mode /\ ~model.pending_pos
    /\ model.pending_flag = <<>>
    /\ model.pending_form = <<>> /\ model.pending_value = <<>>
    /\ model.pending_depth = 0

\* C23: Space enters value mode for a positional (in_value_mode and
\* pending_pos become true); Esc while in value mode cancels the pending
\* entry: in_value_mode and pending_pos become false, pending_flag None,
\* pending_form and pending_value empty, pending_depth 0, and the AST, items
\* and the typed buffers are unchanged; Esc outside value mode changes
\* nothing.
C23_SpaceAndEsc ==
    /\ msg = "space" => model.in_value_mode /\ model.pending_pos
    /\ (msg = "esc" /\ before.in_value_mode) =>
           /\ NoPendingEntry
           /\ model.ast = before.ast /\ model.items = before.items
           /\ model.typed = before.typed /\ model.typed_raw = before.typed_raw
    /\ (msg = "esc" /\ ~before.in_value_mode) => model = before

\* Esc cancelled the value entry of a chosen flag, after Space, with
\* something typed
C23_Witness ==
    /\ msg = "esc" /\ before.in_value_mode
    /\ before.pending_flag # <<>> /\ before.pending_pos
    /\ before.typed # <<>>
    /\ NoPendingEntry

\* the last message was Backspace on a non-empty typed buffer
BackspaceOnTyped == msg = "backspace" /\ before.typed # <<>>

\* the fields of value mode are as before the last message
ValueModeKept ==
    /\ model.in_value_mode = before.in_value_mode
    /\ model.pending_flag = before.pending_flag
    /\ model.pending_form = before.pending_form
    /\ model.pending_pos = before.pending_pos
    /\ model.pending_depth = before.pending_depth
    /\ model.pending_value = before.pending_value

\* C24: Backspace with a non-empty typed buffer removes exactly the last
\* character of typed and of typed_raw and leaves the AST, items, current
\* and the value-mode fields unchanged; numeric_baseline is cleared exactly
\* when typed_raw becomes empty.
C24_BackspaceTrims ==
    BackspaceOnTyped =>
        /\ Len(before.typed) = Len(model.typed) + 1
        /\ SubSeq(before.typed, 1, Len(model.typed)) = model.typed
        /\ Len(before.typed_raw) = Len(model.typed_raw) + 1
        /\ SubSeq(before.typed_raw, 1, Len(model.typed_raw)) = model.typed_raw
        /\ model.ast = before.ast /\ model.items = before.items
        /\ model.current = before.current
        /\ ValueModeKept
        /\ model.numeric_baseline =
               IF model.typed_raw = <<>> THEN <<>> ELSE before.numeric_baseline

\* Backspace took the second digit of a numeric buffer and the baseline is
\* still in force
C24_Witness ==
    /\ BackspaceOnTyped
    /\ model.typed_raw # <<>>
    /\ model.numeric_baseline # <<>>

\* the last message was Backspace, pressed with an empty typed buffer in a
\* state whose root definition is cached and whose most recent operation
\* on the AST is the push of a subcommand: the state a committed subcommand
\* leaves
BackspaceAfterSubcommand ==
    /\ msg = "backspace" /\ before.typed = <<>>
    /\ before.ast.root # <<>> /\ before.ast.root \in DOMAIN before.def_cache
    /\ before.ast.history # <<>>
    /\ before.ast.history[Len(before.ast.history)].kind = "subcmd"
    /\ Len(before.ast.stack) > 1

\* the name of the subcommand that was on top of the stack
PoppedName == before.ast.stack[Len(before.ast.stack)].name

\* the definition of the command that is on top of the stack now
ParentDef == get_def_for_depth(model, Len(model.ast.stack) - 1)

\* C25: undo of a subcommand.  In a state with an empty typed buffer whose
\* root definition is in def_cache, committing a subcommand and then
\* pressing Backspace pops that subcommand from the AST stack, sets current
\* to the parent command definition and rebuilds items from it, so the
\* popped subcommand is offered again.
C25_UndoSubcommand ==
    BackspaceAfterSubcommand =>
        /\ model.ast.stack = SubSeq(before.ast.stack, 1, Len(before.ast.stack) - 1)
        /\ ParentDef # <<>> /\ model.current = ParentDef
        /\ model.items = build_items_from_command(model, ParentDef[1]).items
        /\ \E i \in 1..Len(model.items) :
              /\ model.items[i].kind = "cmd"
              /\ model.items[i].label = PoppedName

\* the subcommand b of the root command b was popped, and is offered again
C25_Witness ==
    /\ BackspaceAfterSubcommand
    /\ PoppedName = <<"b">>
    /\ Len(model.ast.stack) = 1
    /\ model.current # <<>> /\ model.current[1].name = model.ast.root
    /\ \E i \in 1..Len(model.items) : model.items[i].label = PoppedName

----------------------------------------------------------------------------
(* Properties of the Segment and of the CommandLine                       *)

\* C26: LIFO undo.  For any sequence of push_subcommand, add_flag_to_depth
\* (with a valid depth) and add_positional on a Segment created by
\* new_empty, each remove_last undoes exactly the most recent not-yet-undone
\* operation, at whatever depth it was applied: render_preview equals the
\* preview of the sequence without the operations undone.
C26_LifoUndo ==
    render_preview(seg.ast) =
        render_preview(replay(new_empty(seg.ast.root), seg.log))

\* remove_last has just undone a flag of the root node while a subcommand
\* with a flag of its own is on the stack
C26_Witness ==
    /\ seg.undone # <<>>
    /\ seg.undone[1].kind = "flag" /\ seg.undone[1].depth = 0
    /\ Len(seg.ast.stack) = 2
    /\ seg.ast.stack[2].flags # <<>>
    /\ seg.ast.stack[1].flags = <<>>

\* the focused segment before the last operation
FocusedBefore == line.before.segments[line.before.focused_segment_idx + 1]

\* C27: after any sequence of add_segment, remove_focused_segment,
\* focus_next and focus_prev on a CommandLine created by new(), segments is
\* non-empty and focused_segment_idx < segments.len(); focus_next and
\* focus_prev saturate at the ends, and remove_focused_segment removes
\* neither a segment with a non-empty root nor the only remaining segment.
C27_LineFocus ==
    /\ line.cl.segments # <<>>
    /\ line.cl.focused_segment_idx >= 0
    /\ line.cl.focused_segment_idx < Len(line.cl.segments)
    /\ line.op = "focus_next" =>
           /\ line.cl.segments = line.before.segments
           /\ line.cl.focused_segment_idx =
                  IF line.before.focused_segment_idx = Len(line.before.segments) - 1
                  THEN line.before.focused_segment_idx
                  ELSE line.before.focused_segment_idx + 1
    /\ line.op = "focus_prev" =>
           /\ line.cl.segments = line.before.segments
           /\ line.cl.focused_segment_idx =
                  IF line.before.focused_segment_idx = 0 THEN 0
                  ELSE line.before.focused_segment_idx - 1
    /\ (/\ line.op = "remove_focused_segment"
        /\ (FocusedBefore.root # <<>> \/ Len(line.before.segments) = 1)) =>
           line.cl = line.before

\* the last of three segments was focused, had an empty root and was
\* removed; the focus moved to the segment before it
C27_Witness ==
    /\ line.op = "remove_focused_segment"
    /\ Len(line.before.segments) = 3
    /\ line.before.focused_segment_idx = 2
    /\ Len(line.cl.segments) = 2
    /\ line.cl.focused_segment_idx = 1
    /\ line.cl.segments[1].root # <<>>

----------------------------------------------------------------------------
(* Properties of the engine, continued (Spec)                              *)

\* C28: for any pool and any non-empty typed buffer T for which the engine
\* returns two or more assignments, and any returned pair (i, d) with a
\* non-empty disambiguator d, the call on T followed by d does not fail and
\* returns a list that contains index i: a candidate is never dropped by
\* typing the disambiguator currently displayed for it.
C28_DisambiguatorKeeps ==
    (key # <<>> /\ TypedBefore # <<>> /\ Ambiguous(shown)) =>
        \A k \in 1..Len(shown.list) :
            shown.list[k].prefix = key =>
                res.some /\ shown.list[k].index \in IndicesIn(res)

\* the call on the current input gets past the early exits, token narrowing
\* consumes no token, and filter_candidates finds no candidate: the call
\* ends in the no-candidates fallback (acekey.rs 688-693)
ReachesNoCandidates ==
    LET infos == build_infos(elements)
        tn == token_narrowing(infos, TypedLower, TypedLeftUnit, Len(elements))
    IN  /\ ReachesNarrowing
        /\ tn.unique = <<>> /\ tn.maybe_candidates = <<>>
        /\ filter_candidates(infos, TypedLower, TypedLeftUnit) = <<>>

\* what the greedy claim of the fallback resolves for the current input
GreedyClaim ==
    attempt_base_typed_selection_when_no_candidates(
        build_infos(elements), TypedLower, TypedLeftUnit)

\* C29: key shown equals key matched.  Whenever the call on L followed by
\* one character x, with L a left unit, resolves to a single candidate i
\* through the no-candidates fallback, x equals case-insensitively the
\* disambiguator that the call on L displays for candidate i; when the
\* greedy claim resolves nothing the call returns no-match.  Stated for
\* the calls on L that display disambiguators, those that leave more than
\* one candidate.
C29_ShownIsMatched ==
    (key # <<>> /\ IsLeftUnit(TypedBefore) /\ Len(shown.list) > 1
        /\ ReachesNoCandidates) =>
        IF GreedyClaim # <<>>
        THEN \E k \in 1..Len(shown.list) :
                /\ shown.list[k].index = GreedyClaim[1].index
                /\ to_lowercase(shown.list[k].prefix) = to_lowercase(key)
        ELSE res = None

----------------------------------------------------------------------------
(* The offset pass of the filtered allocator (Spec, BodySpec) *)

OffsetOrder == sort_infos(BaseList)

OffsetMaps == build_ms_maps(OffsetOrder)

\* the character candidate idx has at offset k after its own left unit
OffsetChar(maps, idx, k) ==
    nth(maps.ms_map[idx], maps.start_pos_map[idx] + k)

RECURSIVE OffsetClaims(_, _, _)
\* the pairs [index, ch] the offsets below k give: at each offset, in
\* increasing order, a still-unassigned candidate whose character is not a
\* hyphen, not claimed, not the typed left unit and not the character of
\* another still-unassigned candidate at that offset
OffsetClaims(maps, typed_left_unit, k) ==
    IF k = 0 THEN {}
    ELSE LET prev == OffsetClaims(maps, typed_left_unit, k - 1)
             unassigned == DOMAIN maps.ms_map \ {t.index : t \in prev}
             claimed == {t.ch : t \in prev}
             sole == {i \in unassigned :
                        /\ OffsetChar(maps, i, k - 1) # <<>>
                        /\ OffsetChar(maps, i, k - 1) # Hyphen
                        /\ OffsetChar(maps, i, k - 1)[1] \notin claimed
                        /\ OffsetChar(maps, i, k - 1) # typed_left_unit
                        /\ \A j \in unassigned \ {i} :
                              OffsetChar(maps, j, k - 1) # OffsetChar(maps, i, k - 1)}
         IN  prev \cup {[index |-> i, ch |-> OffsetChar(maps, i, k - 1)[1]] :
                            i \in sole}

\* the pairs the offset pass gives over the base list of the current input
BaseOffsetClaims ==
    LET maps == OffsetMaps
    IN  OffsetClaims(maps, TypedLeftUnit, maps.max_len)

\* what the per-candidate contiguous pass alone would give the base list
PerCandidateAlone ==
    LET st0 == [assigned |-> no_assigned(Len(elements)), used |-> {},
                remaining |-> indices_of(OffsetOrder)]
    IN  flatten(per_candidate_pass(OffsetOrder, OffsetMaps, TypedLeftUnit,
                                   st0).assigned)

\* C30: in allocate_disambiguators_filtered the offsets are processed in
\* increasing order from the end of each candidate's own left unit, and a
\* still-unassigned candidate whose character at offset k is not a hyphen,
\* not claimed, not the typed left unit and not held by another
\* still-unassigned candidate at offset k has that character as its
\* disambiguator, whatever the per-candidate pass would have given it.
C30_OffsetPass ==
    LET claims == BaseOffsetClaims
        assigns == BaseAssigns
    IN  \A t \in claims :
            SelectSeq(assigns, LAMBDA a :
                /\ a.index = t.index
                /\ to_lowercase(a.prefix) = <<t.ch>>) # <<>>

\* the engine allocated over a base list in which a candidate got the
\* character of an offset although the per-candidate pass alone would have
\* given it another one
C30_Witness ==
    /\ ReachesNarrowing
    /\ LET alone == PerCandidateAlone
       IN  \E t \in BaseOffsetClaims :
              SelectSeq(alone, LAMBDA a :
                  /\ a.index = t.index
                  /\ to_lowercase(a.prefix) # <<t.ch>>) # <<>>

----------------------------------------------------------------------------
(* The per-candidate pass of the filtered allocator (BodySpec) *)

\* the candidates of the base list the offset pass leaves unassigned
Leftover ==
    LET order == OffsetOrder
        claimed == {t.index : t \in BaseOffsetClaims}
    IN  {order[k] : k \in {j \in 1..Len(order) : order[j].index \notin claimed}}

\* a is served before b: fewer significant characters, or as many and
\* earlier in the input
ServedBefore(a, b) ==
    \/ a.rune_count < b.rune_count
    \/ a.rune_count = b.rune_count /\ a.index < b.index

\* the leftmost character of it's body after its left unit that is not a
\* hyphen, not in taken and not the typed left unit, <<>> when it has none
LeftmostFree(maps, taken, typed_left_unit, it) ==
    LET body == skip(maps.ms_map[it.index], maps.start_pos_map[it.index])
    IN  find_first(body, {c \in chars_of(body) :
                            c # "-" /\ c \notin taken /\ <<c>> # typed_left_unit})

RECURSIVE BodyClaim(_, _, _, _, _)
\* the character candidate it claims when the candidates of leftover are
\* served in ServedBefore order, each taking its LeftmostFree character
BodyClaim(maps, leftover, taken, typed_left_unit, it) ==
    LET earlier == {o \in leftover : ServedBefore(o, it)}
        theirs == {BodyClaim(maps, leftover, taken, typed_left_unit, o) :
                      o \in earlier}
    IN  LeftmostFree(maps, taken \cup {c[1] : c \in theirs \ {<<>>}},
                     typed_left_unit, it)

\* C31: the candidates left unassigned by the offset pass are served in
\* ascending (significant-character count, original index) order, each
\* claiming the leftmost character of its body after its left unit that is
\* not a hyphen, not already claimed and not the typed left unit: of two
\* candidates competing for a character the shorter one, or on equal
\* length the earlier one in the input, gets it.
C31_TieBreak ==
    LET maps == OffsetMaps
        leftover == Leftover
        taken == {t.ch : t \in BaseOffsetClaims}
        assigns == BaseAssigns
    IN  \A it \in leftover :
            LET c == BodyClaim(maps, leftover, taken, TypedLeftUnit, it)
            IN  c # <<>> =>
                    SelectSeq(assigns, LAMBDA a :
                        /\ a.index = it.index
                        /\ to_lowercase(a.prefix) = c) # <<>>

\* the engine allocated over a base list in which two candidates left by
\* the offset pass compete for the same character, the shorter one comes
\* later in the input, and both claim a character
C31_Witness ==
    /\ ReachesNarrowing
    /\ LET maps == OffsetMaps
           leftover == Leftover
           taken == {t.ch : t \in BaseOffsetClaims}
       IN  \E a, b \in leftover :
              /\ a.rune_count < b.rune_count /\ a.index > b.index
              /\ LeftmostFree(maps, taken, TypedLeftUnit, a) # <<>>
              /\ LeftmostFree(maps, taken, TypedLeftUnit, a)
                    = LeftmostFree(maps, taken, TypedLeftUnit, b)
              /\ BodyClaim(maps, leftover, taken, TypedLeftUnit, b) # <<>>

----------------------------------------------------------------------------
(* Properties of the toggle session (ToggleSpec) *)

\* the last message committed a form of a flag that takes no value
ValuelessFlagCommitted ==
    /\ last.done /\ last.item # <<>>
    /\ ChosenItem.kind = "flag" /\ ChosenItem.flag_def # <<>>
    /\ ~ChosenItem.flag_def[1].requires_value

\* the next message commits the form the last message committed, of the
\* same item
SameFormAgain ==
    /\ ValuelessFlagCommitted
    /\ ValuelessFlagCommitted'
    /\ last'.form = last.form
    /\ before'.items[last'.item[1]] = ChosenItem

\* C32, first part: committing a flag form that is not present at its depth
\* adds it, or starts value entry when the flag requires a value;
\* committing a form that is already present at that depth removes it.
C32_AddsOrRemoves ==
    (last.done /\ last.item # <<>> /\ ChosenItem.kind = "flag") =>
        FlagToggledOrValueStarted

\* C32: flag toggle.  Committing an absent flag form adds it (or starts
\* value entry), committing a present one removes it; so committing the
\* same value-less flag twice in a row leaves the rendered preview of the
\* AST as it was before the first of the two commits.
C32_FlagToggle ==
    [][/\ C32_AddsOrRemoves'
       /\ SameFormAgain =>
             render_preview(model'.ast) = render_preview(before.ast)]_vars

----------------------------------------------------------------------------
(* Properties of the engine's result lists (Spec) *)

\* every index of the list is a position of the pool
IndicesInPool ==
    \A k \in 1..Len(res.list) :
        res.list[k].index >= 1 /\ res.list[k].index <= Len(elements)

\* no index occurs twice in the list
IndicesDistinct ==
    \A j, k \in 1..Len(res.list) :
        res.list[j].index = res.list[k].index => j = k

\* C33: every list returned by assign_ace_keys is well formed: each index
\* is smaller than the pool length (here: a position of the pool), no
\* index occurs twice, and for a non-empty typed buffer the list is never
\* empty.
C33_WellFormed ==
    res.some =>
        /\ IndicesInPool
        /\ IndicesDistinct
        /\ typed_raw # <<>> => res.list # <<>>

\* the engine answered a typed buffer with one entry for every element of
\* a pool of several
C33_Witness ==
    /\ typed_raw # <<>> /\ res.some
    /\ Len(elements) >= 2 /\ Len(res.list) = Len(elements)
    /\ IndicesInPool /\ IndicesDistinct

----------------------------------------------------------------------------
(* Properties of a failed load (KeySpec) *)

\* the last message chose a command whose definition carapace was asked
\* for and refused
LoadFailed ==
    /\ RuneHandled /\ last.done /\ last.load = "err"
    /\ ChosenItem.kind = "cmd"

\* C34: a failed load leaves the command line unchanged.  When a command
\* choice needs its definition loaded and the load fails, only err is set:
\* no subcommand is pushed onto the AST stack, and current and items keep
\* their previous values.  (The typed buffers and the numeric baseline are
\* those the rune left before the choice was made.)
C34_FailedLoad ==
    LoadFailed =>
        /\ model.err = ExportError
        /\ model.ast = before.ast
        /\ model.current = before.current
        /\ model.items = before.items
        /\ [model EXCEPT !.err = before.err, !.typed = before.typed,
                         !.typed_raw = before.typed_raw,
                         !.numeric_baseline = before.numeric_baseline] = before

\* a root command had been loaded and left again with Backspace, and the
\* load of the command chosen next failed
C34_Witness ==
    /\ LoadFailed
    /\ Len(before.ast.stack) = 1 /\ before.def_cache # <<>>
    /\ model.err = ExportError
    /\ model.ast = before.ast

====
